---- MODULE Spec2Model ----
(***************************************************************************)
(* Timeline composition tree (TimeLineContent), its lowering to an ffmpeg  *)
(* filter graph, the stream id generator and the render job poller of      *)
(* reaper-levitanus.                                                       *)
(*                                                                         *)
(* Times (Position, Duration, SourceOffset) are integers in milliseconds.  *)
(* Option<T> is a sequence: <<>> is None and <<x>> is Some(x).             *)
(* A panic (failed assert!) is the record Panic(msg), which every          *)
(* constructor and split hands upward as the unwinding would.              *)
(***************************************************************************)
EXTENDS Integers, Sequences, FiniteSets, TLC

VARIABLES
    region,     \* duration of the render region the TimeLine was created for
    root,       \* TimeLine.content
    panic,      \* "none", or the message of the assertion that aborted
    pc,         \* "build" | "rendered" | "probed"
    npush,      \* push_video calls made so far
    last,       \* the last push_video call: its argument, path and composite
    rendered,   \* TimeLineContentRender of root, once lowered
    probe,      \* a split of root and its re-Concat, once probed
    command,    \* the arguments of the ffmpeg Command, once lowered
    named_ids,  \* NamedStreamId.names of a generator used on its own
    id_log,     \* the id calls made on it: prefix asked, text returned
    job,        \* RenderJob: duration, progress, last_status, error_log
    reciever,   \* messages sent to RenderJob.reciever and not yet polled
    thread_r,   \* messages sent through RenderJob.sender, not yet received
    child,      \* the ffmpeg process
    stdout_pipe,\* lines the child wrote to stdout, not yet read
    stderr_pipe,\* lines the child wrote to stderr, not yet read
    n_lines,    \* lines the child wrote so far
    worker,     \* the job's thread, which reads stdout
    logger,     \* the thread that reads stderr
    polling,    \* the front and this job: idle, in poll's loop, or dropped
    seen,       \* history: messages polled, and those poll still owes
    front,      \* the Front: its render_jobs, their threads, its exit_code
    graph,      \* two Nodes, and the last connect call made on them
    session,    \* a render request: project, socket, Front::render, its jobs
    build       \* build_timeline: the project, its cursor, the TimeLine

tvars == <<region, root, panic, pc, npush, last, rendered, probe, command>>

ivars == <<named_ids, id_log>>

jvars == <<job, reciever, thread_r, child, stdout_pipe, stderr_pipe, n_lines,
           worker, logger, polling, seen>>

vars == <<tvars, ivars, jvars, front, graph, session, build>>

\* ------------------------------------------------------------------ bounds

MaxPush == 2

NTracks == 2

MaxCalls == 5

MaxLines == 3

MaxRegions == 2

\* Timeline instants strictly inside every region, and the region durations.
InnerInstants == {5000, 6000}

RegionDurations == {11000, 71050}

Instants(d) == {0} \cup InnerInstants \cup {d}

\* (file, source_offset, filter_chain) of the item the n-th VideoInput is
\* made of: every item has its own file.
ClipOf(n) ==
    [file |-> n,
     source_offset |-> IF n % 2 = 0 THEN 0 ELSE 1500,
     filter_chain |-> IF n % 2 = 0 THEN <<>> ELSE <<"hflip">>]

\* ------------------------------------------------------------------ Option

None == <<>>

Some(x) == <<x>>

IsSome(o) == o # <<>>

Min(a, b) == IF a <= b THEN a ELSE b

\* ------------------------------------------------------------------ tree

Panic(msg) == [kind |-> "Panic", msg |-> msg]

IsPanic(n) == n.kind = "Panic"

\* TimeLineContent::new: the Background of the whole region; z_index is the
\* project's number of tracks.
TimeLineContentNew(duration) ==
    [kind |-> "Background",
     timeline_position |-> 0,
     timeline_end_position |-> duration,
     z_index |-> NTracks]

VideoNew(video) ==
    [kind |-> "Video",
     file |-> video.file,
     fade_in |-> video.fade_in,
     fade_out |-> video.fade_out,
     source_offset |-> video.source_offset,
     filter_chain |-> video.filter_chain,
     timeline_position |-> video.timeline_position,
     timeline_end_position |-> video.timeline_end_position,
     z_index |-> video.track_index]

\* Mutant: the Concat takes the z_index of its left child.
ConcatNewLeftZ(left, right) ==
    IF IsPanic(left) THEN left
    ELSE IF IsPanic(right) THEN right
    ELSE IF left.timeline_end_position # right.timeline_position
         THEN Panic("wrong connection")
    ELSE [kind |-> "Concat",
          left |-> left,
          right |-> right,
          timeline_position |-> left.timeline_position,
          timeline_end_position |-> right.timeline_end_position,
          z_index |-> left.z_index]

ConcatNew(left, right) ==
    IF IsPanic(left) THEN left
    ELSE IF IsPanic(right) THEN right
    ELSE IF left.timeline_end_position # right.timeline_position
         THEN Panic("wrong connection")
    ELSE [kind |-> "Concat",
          left |-> left,
          right |-> right,
          timeline_position |-> left.timeline_position,
          timeline_end_position |-> right.timeline_end_position,
          z_index |-> Min(left.z_index, right.z_index)]

XFadeNew(left, right, duration) ==
    IF IsPanic(left) THEN left
    ELSE IF IsPanic(right) THEN right
    ELSE IF left.timeline_end_position - duration # right.timeline_position
         THEN Panic("wrong duration length")
    ELSE [kind |-> "XFade",
          left |-> left,
          right |-> right,
          fade_duration |-> duration,
          timeline_position |-> left.timeline_position,
          timeline_end_position |-> right.timeline_end_position,
          z_index |-> Min(left.z_index, right.z_index)]

\* A pair of subtrees, or the panic that stopped building it.
Pair(l, r) ==
    IF IsPanic(l) THEN <<l, l>> ELSE IF IsPanic(r) THEN <<r, r>> ELSE <<l, r>>

SplitConcatBranch(self, position, s) ==
    LET inLeft == position < self.left.timeline_end_position
        left   == IF inLeft THEN s[1] ELSE self.left
        center == IF inLeft THEN s[2] ELSE s[1]
        right  == IF inLeft THEN self.right ELSE s[2]
    IN  IF IsPanic(s[1]) THEN s
        ELSE IF center.timeline_position = position
             THEN Pair(left, ConcatNew(center, right))
             ELSE Pair(ConcatNew(left, center), right)

\* "splitting in the middle of crossfade": both children are cut at position
\* and both new fade durations are the difference of a position with itself.
SplitXFadeMiddle(l, r) ==
    IF IsPanic(l[1]) THEN l
    ELSE IF IsPanic(r[1]) THEN r
    ELSE LET l_d == r[1].timeline_end_position - r[1].timeline_end_position
             r_d == l[2].timeline_end_position - l[2].timeline_end_position
             left == XFadeNew(l[1], r[1], l_d)
         IN  IF IsPanic(left) THEN <<left, left>>
             ELSE Pair(left, XFadeNew(l[2], r[2], r_d))

\* Mutant: the left part keeps the node's end.
SplitBackgroundKeepsEnd(self, position) ==
    << self, [self EXCEPT !.timeline_position = position] >>

SplitBackground(self, position) ==
    << [self EXCEPT !.timeline_end_position = position],
       [self EXCEPT !.timeline_position = position] >>

\* Mutant: the left piece keeps the node's end.
SplitVideoKeepsEnd(self, position) ==
    << [self EXCEPT !.fade_out = None],
       [self EXCEPT !.fade_in = None,
                    !.source_offset = @ + (position - self.timeline_position),
                    !.timeline_position = position] >>

\* Mutant: the right piece starts the source where the node does.
SplitVideoKeepsOffset(self, position) ==
    << [self EXCEPT !.fade_out = None,
                    !.timeline_end_position = position],
       [self EXCEPT !.fade_in = None,
                    !.timeline_position = position] >>

\* Mutant: the right piece's offset advances by the position itself.
SplitVideoOffsetByPosition(self, position) ==
    << [self EXCEPT !.fade_out = None,
                    !.timeline_end_position = position],
       [self EXCEPT !.fade_in = None,
                    !.source_offset = @ + position,
                    !.timeline_position = position] >>

SplitVideo(self, position) ==
    << [self EXCEPT !.fade_out = None,
                    !.timeline_end_position = position],
       [self EXCEPT !.fade_in = None,
                    !.source_offset = @ + (position - self.timeline_position),
                    !.timeline_position = position] >>

RECURSIVE split(_, _)
split(self, position) ==
    CASE self.kind = "Background" -> SplitBackground(self, position)
      [] self.kind = "Video" -> SplitVideo(self, position)
      [] self.kind = "Concat" ->
            IF position = self.left.timeline_end_position
            THEN <<self.left, self.right>>
            ELSE IF position < self.left.timeline_end_position
                 THEN SplitConcatBranch(self, position,
                                        split(self.left, position))
                 ELSE SplitConcatBranch(self, position,
                                        split(self.right, position))
      [] self.kind = "XFade" ->
            IF position <= self.left.timeline_end_position - self.fade_duration
            THEN LET s == split(self.left, position)
                 IN  IF IsPanic(s[1]) THEN s
                     ELSE Pair(s[1],
                               XFadeNew(s[2], self.right, self.fade_duration))
            ELSE IF self.right.timeline_position + self.fade_duration
                        <= position
            THEN LET s == split(self.right, position)
                 IN  IF IsPanic(s[1]) THEN s
                     ELSE Pair(XFadeNew(self.left, s[1], self.fade_duration),
                               s[2])
            ELSE SplitXFadeMiddle(split(self.left, position),
                                  split(self.right, position))

\* self.z_index = c.z_index; self.content_type = c.content_type: the position
\* fields of self stay as they are.
SetContent(self, c) ==
    [c EXCEPT !.timeline_position = self.timeline_position,
              !.timeline_end_position = self.timeline_end_position]

SolidStart(video) ==
    IF IsSome(video.fade_in)
    THEN video.timeline_position + video.fade_in[1]
    ELSE video.timeline_position

SolidEnd(video) ==
    IF IsSome(video.fade_out)
    THEN video.timeline_end_position - video.fade_out[1]
    ELSE video.timeline_end_position

\* Mutant: what lies before the video is left out.
PushLeftDropsLeft(self_left, video) == VideoNew(video)

\* The left composite of push_video: None for self_left is <<>>.
PushLeft(self_left, video) ==
    IF self_left = None THEN VideoNew(video)
    ELSE IF IsSome(video.fade_in)
         THEN XFadeNew(self_left[1], VideoNew(video), video.fade_in[1])
         ELSE ConcatNew(self_left[1], VideoNew(video))

\* Mutant: "left is right" whatever follows the video.
PushRightDropsRight(left, self_right, fade_out) == left

PushRight(left, self_right, fade_out) ==
    IF self_right = None THEN left
    ELSE IF IsSome(fade_out)
         THEN XFadeNew(left, self_right[1], fade_out[1])
         ELSE ConcatNew(left, self_right[1])

\* Mutant: the fast path leaves what lies beneath in place.
FastPathKeepsContent(self, video) == [self EXCEPT !.z_index = video.track_index]

\* Mutant: the fast path without self.z_index = video.track_index.
FastPathKeepsZ(self, video) ==
    [SetContent(self, VideoNew(video)) EXCEPT !.z_index = self.z_index]

\* The fast path: self.z_index = video.track_index and self.content_type is
\* the Video's.
FastPath(self, video) == SetContent(self, VideoNew(video))

\* push_video: [tree, panic, path, composite]; tree is self when it panics.
push_video(self, video) ==
    IF ~(video.track_index <= self.z_index)
    THEN [tree |-> self, panic |-> "pushing underlying video",
          path |-> "assert", composite |-> self]
    ELSE IF /\ video.fade_in = None
            /\ video.fade_out = None
            /\ video.timeline_position = self.timeline_position
            /\ video.timeline_end_position = self.timeline_end_position
    THEN [tree |-> FastPath(self, video), panic |-> "none",
          path |-> "fast", composite |-> VideoNew(video)]
    ELSE
    LET solid_start == SolidStart(video)
        solid_end   == SolidEnd(video)
        ls == IF solid_start = self.timeline_position
              THEN None ELSE Some(split(self, solid_start)[1])
        lpanic == ls # None /\ IsPanic(ls[1])
        rs == IF lpanic \/ solid_end = self.timeline_end_position
              THEN None ELSE Some(split(self, solid_end)[2])
        rpanic == rs # None /\ IsPanic(rs[1])
        left == IF lpanic THEN ls[1]
                ELSE IF rpanic THEN rs[1]
                ELSE PushLeft(ls, video)
        content == PushRight(left, rs, video.fade_out)
    IN  IF IsPanic(content)
        THEN [tree |-> self, panic |-> content.msg,
              path |-> "general", composite |-> self]
        ELSE [tree |-> SetContent(self, content), panic |-> "none",
              path |-> "general", composite |-> content]

\* ------------------------------------------------------------------ ids

\* NamedStreamId::new: the HashMap of counters, empty.
NamedStreamIdNew == [p \in {} |-> 0]

\* Mutant: the counter is formatted before it is incremented.
NamedStreamId_idStale(names, id) ==
    IF id \notin DOMAIN names
    THEN [new_id |-> id \o "0",
          names  |-> names @@ (id :> 0)]
    ELSE [new_id |-> id \o ToString(names[id]),
          names  |-> [names EXCEPT ![id] = @ + 1]]

\* Mutant: the first id of a prefix is numbered by the prefixes seen so far.
NamedStreamId_idShared(names, id) ==
    IF id \notin DOMAIN names
    THEN [new_id |-> id \o ToString(Cardinality(DOMAIN names)),
          names  |-> names @@ (id :> Cardinality(DOMAIN names))]
    ELSE [new_id |-> id \o ToString(names[id] + 1),
          names  |-> [names EXCEPT ![id] = @ + 1]]

\* NamedStreamId::id: [new_id, names'], the text prefix ++ decimal counter.
NamedStreamId_id(names, id) ==
    IF id \notin DOMAIN names
    THEN [new_id |-> id \o "0",
          names  |-> names @@ (id :> 0)]
    ELSE [new_id |-> id \o ToString(names[id] + 1),
          names  |-> [names EXCEPT ![id] = @ + 1]]

\* StreamId as render uses it: the named counters and the number of inputs
\* handed out by input_video_id.
StreamIdNew == [names |-> NamedStreamIdNew, n_inputs |-> 0]

StreamId_id(gen, prefix) ==
    LET r == NamedStreamId_id(gen.names, prefix)
    IN  [id |-> r.new_id, gen |-> [gen EXCEPT !.names = r.names]]

\* input_video_id: the label of the next -i input's video stream.
input_video_id(gen) ==
    [id  |-> ToString(gen.n_inputs) \o ":v",
     gen |-> [gen EXCEPT !.n_inputs = @ + 1]]

\* ------------------------------------------------------------------ timestump

\* The text "{hours}:{mins}:{secs}.{millis}" as its four numbers, each printed
\* in decimal without padding.
DurationTimestump(ms) ==
    LET as_secs == ms \div 1000
    IN  [hours  |-> (as_secs \div 60) \div 60,
         mins   |-> as_secs \div 60,
         secs   |-> as_secs,
         millis |-> ms % 1000]

\* chrono TimeDelta: num_hours, num_minutes, num_seconds and num_milliseconds
\* are each the whole delta in that unit.
SourceOffsetTimestump(ms) ==
    LET num_seconds == ms \div 1000
        num_minutes == num_seconds \div 60
        num_hours   == num_minutes \div 60
    IN  [hours  |-> (num_hours \div 60) \div 60,
         mins   |-> num_minutes \div 60,
         secs   |-> num_seconds,
         millis |-> ms]

\* ------------------------------------------------------------------ lowering

\* A filter expression is a sequence of chains, written chain;chain;...: each
\* chain is [in][in]stage,stage,...[out], the last one without its [out].
Chain(ins, stages) == [ins |-> ins, stages |-> stages, out |-> None]

\* format!("{}[{}]", filters, id): the last chain gets its output label.
Labelled(chains, id) ==
    [chains EXCEPT ![Len(chains)].out = Some(id)]

render_filters(left, right) ==
    IF IsSome(left.filters)
    THEN IF IsSome(right.filters)
         THEN Some(Labelled(left.filters[1], left.id)
                   \o Labelled(right.filters[1], right.id))
         ELSE Some(Labelled(left.filters[1], left.id))
    ELSE IF IsSome(right.filters)
         THEN Some(Labelled(right.filters[1], right.id))
         ELSE None

Joined(f) == IF IsSome(f) THEN f[1] ELSE <<>>

UserFilters(chain) == [i \in 1..Len(chain) |-> [name |-> chain[i]]]

RenderBackground(self, gen) ==
    LET duration == self.timeline_end_position - self.timeline_position
        a == StreamId_id(gen, "bg")
    IN  [id |-> a.id,
         inputs |-> <<>>,
         filters |-> Some(<< Chain(<<>>, << [name |-> "color",
                                             duration |-> duration] >>) >>),
         gen |-> a.gen]

RenderVideo(self, gen) ==
    LET duration == self.timeline_end_position - self.timeline_position
        i == input_video_id(gen)
        a == StreamId_id(i.gen, "vf")
    IN  [id |-> a.id,
         inputs |-> << "-ss", SourceOffsetTimestump(self.source_offset),
                       "-t", DurationTimestump(duration),
                       "-i", self.file >>,
         filters |-> Some(<< Chain(<<i.id>>,
                                   << [name |-> "fps"], [name |-> "scale"],
                                      [name |-> "pad"], [name |-> "setsar"] >>
                                   \o UserFilters(self.filter_chain)) >>),
         gen |-> a.gen]

\* Mutant: the concat stage names the left label twice.
RenderConcatSameLabel(id, left, right) ==
    [id |-> id,
     inputs |-> left.inputs \o right.inputs,
     filters |-> Some(Joined(render_filters(left, right))
                      \o << Chain(<<left.id, left.id>>,
                                  << [name |-> "concat"],
                                     [name |-> "fps"] >>) >>),
     gen |-> right.gen]

RenderConcat(id, left, right) ==
    [id |-> id,
     inputs |-> left.inputs \o right.inputs,
     filters |-> Some(Joined(render_filters(left, right))
                      \o << Chain(<<left.id, right.id>>,
                                  << [name |-> "concat"],
                                     [name |-> "fps"] >>) >>),
     gen |-> right.gen]

RenderXFade(self, id, left, right) ==
    [id |-> id,
     inputs |-> left.inputs \o right.inputs,
     filters |-> Some(Joined(render_filters(left, right))
                      \o << Chain(<<left.id, right.id>>,
                                  << [name |-> "xfade",
                                      duration |-> self.fade_duration,
                                      offset |->
                                          self.right.timeline_position] >>) >>),
     gen |-> right.gen]

\* TimeLineContent::render: the node's own id is drawn before its children
\* are lowered, the left child before the right one.
RECURSIVE render(_, _)
render(self, gen) ==
    CASE self.kind = "Background" -> RenderBackground(self, gen)
      [] self.kind = "Video" -> RenderVideo(self, gen)
      [] self.kind = "Concat" ->
            LET a == StreamId_id(gen, "conc")
                left == render(self.left, a.gen)
                right == render(self.right, left.gen)
            IN  RenderConcat(a.id, left, right)
      [] self.kind = "XFade" ->
            LET a == StreamId_id(gen, "xfade")
                left == render(self.left, a.gen)
                right == render(self.right, left.gen)
            IN  RenderXFade(self, a.id, left, right)

\* ------------------------------------------------------------------ command

\* An argument of the Command is a flag or the operand of one; an operand is
\* a record, so that a timestump, a path and a plain word can stand side by
\* side.
Flag(name) == [flag |-> name]

Operand(arg) == [operand |-> arg]

Word(text) == [text |-> text]

\* content.inputs as arguments: -ss <offset> -t <duration> -i <file>.
InputArgs(inputs) ==
    [i \in 1..Len(inputs) |->
        IF i % 2 = 1 THEN Flag(inputs[i])
        ELSE IF i % 6 = 0 THEN Operand([file |-> inputs[i]])
        ELSE Operand(inputs[i])]

\* "-{name}" and the parameter of every option that has one.
RECURSIVE OptionArgs(_)
OptionArgs(options) ==
    IF options = <<>> THEN <<>>
    ELSE (IF IsSome(Head(options).parameter)
          THEN << Flag("-" \o Head(options).name),
                  Operand(Word(Head(options).parameter[1])) >>
          ELSE <<>>) \o OptionArgs(Tail(options))

\* *f += ",{master}": the master filters are further stages of the last
\* chain; with no expression they are the expression.
WithMaster(filters, master_filters) ==
    IF master_filters = <<>> THEN filters
    ELSE IF IsSome(filters)
         THEN Some([filters[1] EXCEPT ![Len(filters[1])].stages =
                                          @ \o UserFilters(master_filters)])
         ELSE Some(<< Chain(<<>>, UserFilters(master_filters)) >>)

\* PathBuf::with_extension.
with_extension(path, extension) == [path EXCEPT !.extension = extension]

\* Mutant: the output path is written before the -r flag.
get_render_jobPathBeforeRate(content, outfile, settings, master_filters) ==
    LET filters == WithMaster(content.filters, master_filters)
    IN  << Flag("-hide_banner"), Flag("-y") >>
        \o InputArgs(content.inputs)
        \o << Flag("-i"), Operand(outfile) >>
        \o << Flag("-filter_complex"),
              Operand([expression |-> Labelled(Joined(filters), content.id)]) >>
        \o << Flag("-map"), Operand([label |-> content.id, stream |-> 0]) >>
        \o << Flag("-c:v"), Operand(Word(settings.video_encoder)) >>
        \o << Operand(with_extension(outfile, settings.extension)) >>
        \o << Flag("-r"), Operand(Word(settings.fps)) >>

\* The arguments of the Command get_render_job returns, "ffmpeg" left out.
get_render_job(content, outfile, settings, master_filters) ==
    LET filters == WithMaster(content.filters, master_filters)
    IN  << Flag("-hide_banner"), Flag("-y") >>
        \o InputArgs(content.inputs)
        \o (IF settings.audio_offset # 0
            THEN << Flag("-itsoffset"),
                    Operand([millis |-> settings.audio_offset]) >>
            ELSE <<>>)
        \o << Flag("-i"), Operand(outfile) >>
        \o (IF IsSome(filters)
            THEN << Flag("-filter_complex"),
                    Operand([expression |->
                                Labelled(filters[1], content.id)]) >>
            ELSE <<>>)
        \o << Flag("-map"), Operand([label |-> content.id, stream |-> 0]) >>
        \o << Flag("-map"), Operand([audio_stream |-> 0]) >>
        \o << Flag("-c:v"), Operand(Word(settings.video_encoder)) >>
        \o OptionArgs(settings.video_encoder_options)
        \o << Flag("-pix_fmt"), Operand(Word(settings.pixel_format)) >>
        \o (IF IsSome(settings.audio_encoder)
            THEN << Flag("-c:a"), Operand(Word(settings.audio_encoder[1])) >>
            ELSE <<>>)
        \o OptionArgs(settings.audio_encoder_options)
        \o << Flag("-r"), Operand(Word(settings.fps)) >>
        \o << Flag("-progress"), Operand(Word("pipe:1")) >>
        \o << Operand(with_extension(outfile, settings.extension)) >>

\* RenderSettings::default, and settings with an audio offset, encoder
\* options with and without a parameter and no audio encoder.
DefaultSettings ==
    [audio_offset |-> 0,
     extension |-> "mkv",
     video_encoder |-> "libx264",
     video_encoder_options |-> <<>>,
     audio_encoder |-> Some("aac"),
     audio_encoder_options |-> <<>>,
     fps |-> "30000/1001",
     pixel_format |-> "yuv420p"]

RenderSettings ==
    { DefaultSettings,
      [DefaultSettings EXCEPT
          !.audio_offset = 250,
          !.extension = "mp4",
          !.video_encoder_options =
              << [name |-> "crf", parameter |-> Some("23")],
                 [name |-> "tune", parameter |-> None] >>,
          !.audio_encoder = None,
          !.audio_encoder_options =
              << [name |-> "b:a", parameter |-> Some("128k")] >>] }

MasterFilters == { <<>>, <<"hue">> }

\* TimeLine.outfile: the audio file REAPER renders for the region.
OutFile == [stem |-> "region", extension |-> "wav"]

\* ------------------------------------------------------------------ measures

RECURSIVE Leaves(_)
Leaves(n) ==
    IF n.kind \in {"Concat", "XFade"}
    THEN Leaves(n.left) \o Leaves(n.right)
    ELSE <<n>>

RECURSIVE Nodes(_)
Nodes(n) ==
    IF n.kind \in {"Concat", "XFade"}
    THEN <<n>> \o Nodes(n.left) \o Nodes(n.right)
    ELSE <<n>>

\* The duration of the composition a tree stands for: leaves add up across a
\* Concat, and overlap by the fade across an XFade.
RECURSIVE TreeDuration(_)
TreeDuration(n) ==
    CASE n.kind = "Concat" -> TreeDuration(n.left) + TreeDuration(n.right)
      [] n.kind = "XFade" ->
            TreeDuration(n.left) + TreeDuration(n.right) - n.fade_duration
      [] OTHER -> n.timeline_end_position - n.timeline_position

\* Every Concat and XFade of the tree meets its seam condition.
RECURSIVE SeamsOk(_)
SeamsOk(n) ==
    CASE n.kind = "Concat" ->
            /\ n.left.timeline_end_position = n.right.timeline_position
            /\ SeamsOk(n.left) /\ SeamsOk(n.right)
      [] n.kind = "XFade" ->
            /\ n.left.timeline_end_position - n.fade_duration
                   = n.right.timeline_position
            /\ SeamsOk(n.left) /\ SeamsOk(n.right)
      [] OTHER -> TRUE

SeqSum(s) ==
    LET RECURSIVE Go(_)
        Go(i) == IF i = 0 THEN 0 ELSE s[i] + Go(i - 1)
    IN  Go(Len(s))

Chains(r) == Joined(r.filters)

\* All stages of a lowered expression, in order.
Stages(r) ==
    LET RECURSIVE Go(_)
        Go(i) == IF i = 0 THEN <<>> ELSE Go(i - 1) \o Chains(r)[i].stages
    IN  Go(Len(Chains(r)))

StagesNamed(r, name) == SelectSeq(Stages(r), LAMBDA s : s.name = name)

StageCount(r) == Len(Stages(r))

\* The ids drawn in a lowering pass: the label of every chain, the root's
\* being r.id.
StreamIds(r) ==
    [i \in 1..Len(Chains(r)) |->
        IF i = Len(Chains(r)) THEN r.id ELSE Chains(r)[i].out[1]]

NoDuplicates(s) == \A i, j \in 1..Len(s) : i # j => s[i] # s[j]

Pow10(k) == IF k = 1 THEN 10 ELSE IF k = 2 THEN 100 ELSE IF k = 3 THEN 1000
            ELSE IF k = 4 THEN 10000 ELSE 100000

DecimalDigits(n) == IF n < 10 THEN 1 ELSE IF n < 100 THEN 2
                    ELSE IF n < 1000 THEN 3 ELSE IF n < 10000 THEN 4 ELSE 5

\* The time ffmpeg reads from h:m:s.f, in milliseconds: f is a decimal
\* fraction of a second.
ReadTimestamp(ts) ==
    (ts.hours * 3600 + ts.mins * 60 + ts.secs) * 1000
        + (ts.millis * 1000) \div Pow10(DecimalDigits(ts.millis))

ChainOf(r, label) ==
    CHOOSE i \in 1..Len(Chains(r)) : Chains(r)[i].out = Some(label)

InputOf(r, label) ==
    CHOOSE n \in 0..(Len(r.inputs) \div 6) : ToString(n) \o ":v" = label

\* The length of the stream a chain puts out, as the lowered graph implies it.
RECURSIVE ChainDuration(_, _)
ChainDuration(r, i) ==
    LET c == Chains(r)[i]
        head == c.stages[1]
    IN  CASE head.name = "color" -> head.duration
          [] head.name = "fps" ->
                ReadTimestamp(r.inputs[6 * InputOf(r, c.ins[1]) + 4])
          [] head.name = "concat" ->
                ChainDuration(r, ChainOf(r, c.ins[1]))
                    + ChainDuration(r, ChainOf(r, c.ins[2]))
          [] head.name = "xfade" ->
                ChainDuration(r, ChainOf(r, c.ins[1]))
                    + ChainDuration(r, ChainOf(r, c.ins[2]))
                    - head.duration

LoweredDuration(r) == ChainDuration(r, Len(Chains(r)))

\* ------------------------------------------------------------------ inputs

\* Option<Duration> values of a fade that ends (fade_in) or starts (fade_out)
\* on an instant of the region: build_timeline turns a zero fade into None.
FadeIns(s, e, d) ==
    {None} \cup {Some(g - s) : g \in {i \in Instants(d) : s < i /\ i <= e}}

FadeOuts(ss, e, d) ==
    {None} \cup {Some(e - g) : g \in {i \in Instants(d) : ss <= i /\ i < e}}

VideoInput(c, s, e, fi, fo, t) ==
    [file |-> c.file,
     source_offset |-> c.source_offset,
     filter_chain |-> c.filter_chain,
     timeline_position |-> s,
     timeline_end_position |-> e,
     fade_in |-> fi,
     fade_out |-> fo,
     track_index |-> t]

NoVideo == [path |-> "none"]

\* ------------------------------------------------------------------ actions

TInit ==
    /\ region \in RegionDurations
    /\ root = TimeLineContentNew(region)
    /\ panic = "none"
    /\ pc = "build"
    /\ npush = 0
    /\ last = NoVideo
    /\ rendered = None
    /\ probe = None
    /\ command = None

\* TimeLine::push: one VideoInput inside the region whose fades fit.
Push(video) ==
    LET r == push_video(root, video)
    IN  /\ pc = "build"
        /\ panic = "none"
        /\ npush < MaxPush
        /\ root' = r.tree
        /\ panic' = r.panic
        /\ npush' = npush + 1
        /\ last' = [path |-> r.path,
                    panic |-> r.panic,
                    video |-> video,
                    start |-> r.composite.timeline_position,
                    end |-> r.composite.timeline_end_position]
        /\ UNCHANGED <<region, pc, rendered, probe, command, ivars, jvars, front,
                       graph, session, build>>

PushVideo ==
    \E s \in Instants(region), e \in Instants(region),
       t \in 0..(NTracks - 1) :
      LET c == ClipOf(npush) IN
        /\ s < e
        /\ \E fi \in FadeIns(s, e, region) :
             \E fo \in FadeOuts(SolidStart(VideoInput(c, s, e, fi, None, t)),
                                e, region) :
                Push(VideoInput(c, s, e, fi, fo, t))

\* Render::get_render_job: a fresh generator, one lowering pass over the
\* finished timeline, and the Command built around it.
Lower ==
    /\ pc = "build"
    /\ panic = "none"
    /\ rendered' = Some(render(root, StreamIdNew))
    /\ \E settings \in RenderSettings, master_filters \in MasterFilters :
          command' = Some(get_render_job(render(root, StreamIdNew), OutFile,
                                         settings, master_filters))
    /\ pc' = "rendered"
    /\ UNCHANGED <<region, root, panic, npush, last, probe, ivars, jvars, front, graph, session, build>>

\* split applied to the timeline at an instant strictly inside its span, and
\* the two parts joined again by Concat::new.
SplitProbe ==
    \E p \in Instants(region) :
        /\ pc = "build"
        /\ panic = "none"
        /\ root.timeline_position < p
        /\ p < root.timeline_end_position
        /\ LET s == split(root, p)
           IN  /\ probe' = Some([position |-> p,
                                 left |-> s[1],
                                 right |-> s[2],
                                 joined |-> ConcatNew(s[1], s[2])])
               /\ panic' = IF IsPanic(s[1]) THEN s[1].msg ELSE "none"
        /\ pc' = "probed"
        /\ UNCHANGED <<region, root, npush, last, rendered, command, ivars, jvars,
                       front, graph, session, build>>

Next ==
    \/ PushVideo
    \/ Lower
    \/ SplitProbe

\* The generator and the job, not in use.
IOff == named_ids = NamedStreamIdNew /\ id_log = <<>>

JOff ==
    /\ job = <<>>
    /\ reciever = <<>>
    /\ thread_r = <<>>
    /\ child = "none"
    /\ stdout_pipe = <<>>
    /\ stderr_pipe = <<>>
    /\ n_lines = 0
    /\ worker = "none"
    /\ logger = "none"
    /\ polling = "idle"
    /\ seen = <<>>

TOff ==
    /\ region = 0
    /\ root = TimeLineContentNew(0)
    /\ panic = "none"
    /\ pc = "off"
    /\ npush = 0
    /\ last = NoVideo
    /\ rendered = None
    /\ probe = None
    /\ command = None

\* The Front, with no render started.
FOff == front = <<>>

\* No Node built.
GOff == graph = <<>>

\* No render asked for.
SOff == session = <<>>

\* No timeline being built from a project.
BOff == build = <<>>

Init == TInit /\ IOff /\ JOff /\ FOff /\ GOff /\ SOff /\ BOff

Spec == Init /\ [][Next]_vars

\* ------------------------------------------------------------------ SpecIds

Prefixes == {"video", "background", "vf"}

IdCall ==
    \E p \in Prefixes :
        LET r == NamedStreamId_id(named_ids, p)
        IN  /\ Len(id_log) < MaxCalls
            /\ named_ids' = r.names
            /\ id_log' = Append(id_log, [prefix |-> p, new_id |-> r.new_id])
            /\ UNCHANGED <<tvars, jvars, front, graph, session, build>>

IdsInit == TOff /\ IOff /\ JOff /\ FOff /\ GOff /\ SOff /\ BOff

IdsNext ==
    \/ IdCall

SpecIds == IdsInit /\ [][IdsNext]_vars

\* ------------------------------------------------------------------ render job

\* tl.duration() of the timeline a job renders, in milliseconds.
JobDurations == {8000}

\* Lines of ffmpeg's -progress output, key=value; out_time is HH:MM:SS.ffffff,
\* its seconds held in milliseconds.
StdoutLines ==
    { [key |-> "frame", value |-> 120],
      [key |-> "fps", value |-> "29.7"],
      [key |-> "out_time",
       value |-> [unit |-> "Timestamp",
                  hours |-> 0, minutes |-> 0, seconds |-> 4000]],
      [key |-> "speed", value |-> "1.02x"],
      [key |-> "progress", value |-> "continue"],
      [key |-> "progress", value |-> "end"],
      [key |-> "progress", value |-> "failed"],
      [key |-> "bitrate", value |-> "N/A"] }

StderrLines == {"Error opening input", "Past duration too large"}

\* s.contains("Error")
ContainsError(s) == s = "Error opening input"

SpawnError == "No such file or directory"

Stop == [tag |-> "Stop"]

\* DurationUnit::as_duration, of Seconds and of Timestamp
as_duration(t) ==
    IF t.unit = "Seconds"
    THEN t.seconds
    ELSE (t.hours * 3600 + t.minutes * 60) * 1000 + t.seconds

from_stringAnyWord(line) ==
    CASE line.key = "frame" -> Some([tag |-> "Frame", v |-> line.value])
      [] line.key = "fps" -> Some([tag |-> "Fps", v |-> line.value])
      [] line.key = "out_time" /\ line.value.unit # "N/A" ->
            Some([tag |-> "Time", v |-> line.value])
      [] line.key = "speed" -> Some([tag |-> "Speed", v |-> line.value])
      [] line.key = "progress" ->
            Some([tag |-> "Progress", ok |-> TRUE, v |-> line.value])
      [] OTHER -> None

from_stringAnyFrames(line) ==
    CASE line.key \in {"frame", "drop_frames"} ->
            Some([tag |-> "Frame", v |-> line.value])
      [] line.key = "fps" -> Some([tag |-> "Fps", v |-> line.value])
      [] line.key = "out_time" /\ line.value.unit # "N/A" ->
            Some([tag |-> "Time", v |-> line.value])
      [] line.key = "speed" -> Some([tag |-> "Speed", v |-> line.value])
      [] line.key = "progress" ->
            Some([tag |-> "Progress",
                  ok |-> line.value \in {"continue", "end"},
                  v |-> line.value])
      [] OTHER -> None

\* RenderMessage::from_string: the first pattern that matches decides.
from_string(line) ==
    CASE line.key = "frame" -> Some([tag |-> "Frame", v |-> line.value])
      [] line.key = "fps" -> Some([tag |-> "Fps", v |-> line.value])
      [] line.key = "out_time" /\ line.value.unit # "N/A" ->
            Some([tag |-> "Time", v |-> line.value])
      [] line.key = "speed" -> Some([tag |-> "Speed", v |-> line.value])
      [] line.key = "progress" ->
            Some([tag |-> "Progress",
                  ok |-> line.value \in {"continue", "end"},
                  v |-> line.value])
      [] OTHER -> None

InProgressStale(num, den) == [tag |-> "Progress", num |-> 0, den |-> den]

\* RenderProgress
InProgress(num, den) == [tag |-> "Progress", num |-> num, den |-> den]

ResultOk == [tag |-> "Result", ok |-> TRUE]

ResultErr(e) == [tag |-> "Result", ok |-> FALSE, err |-> e]

IsErr(p) == p.tag = "Result" /\ ~p.ok

\* RenderStatus::default
RenderStatusDefault ==
    [frame |-> 0, fps |-> "0",
     time |-> [unit |-> "Seconds", seconds |-> 0], speed |-> "",
     progress |-> [ok |-> TRUE, v |-> ""]]

\* The RenderJob Front::render builds.
RenderJobNew(d) ==
    [duration |-> d,
     progress |-> InProgress(0, d),
     last_status |-> RenderStatusDefault,
     error_log |-> <<>>]

\* One turn of the loop of RenderJob::poll on message msg:
\* [job, stop, return], stop when it sends Stop to the job's thread and
\* return when it leaves poll before the channel is empty.
PollOne(j, msg) ==
    CASE msg.tag = "Frame" ->
            [job |-> [j EXCEPT !.last_status.frame = msg.v],
             stop |-> FALSE, return |-> FALSE]
      [] msg.tag = "Fps" ->
            [job |-> [j EXCEPT !.last_status.fps = msg.v],
             stop |-> FALSE, return |-> FALSE]
      [] msg.tag = "Time" ->
            [job |-> [j EXCEPT
                        !.progress = InProgress(as_duration(msg.v),
                                                j.duration),
                        !.last_status.time = msg.v],
             stop |-> FALSE, return |-> FALSE]
      [] msg.tag = "Speed" ->
            [job |-> [j EXCEPT !.last_status.speed = msg.v],
             stop |-> FALSE, return |-> FALSE]
      [] msg.tag = "Progress" ->
            IF ~msg.ok
            THEN [job |-> [j EXCEPT
                             !.progress = ResultErr(msg.v),
                             !.last_status.progress =
                                 [ok |-> FALSE, v |-> msg.v]],
                  stop |-> FALSE, return |-> FALSE]
            ELSE IF msg.v = "end" /\ IsErr(j.progress)
            THEN [job |-> j, stop |-> FALSE, return |-> TRUE]
            ELSE [job |-> [j EXCEPT
                             !.progress =
                                 IF msg.v = "end" THEN ResultOk ELSE @,
                             !.last_status.progress =
                                 [ok |-> TRUE, v |-> msg.v]],
                  stop |-> FALSE, return |-> FALSE]
      [] msg.tag = "Stop" ->
            [job |-> j, stop |-> FALSE, return |-> FALSE]
      [] msg.tag = "Err" ->
            [job |-> [j EXCEPT
                        !.progress =
                            IF IsErr(@)
                            THEN ResultErr(@.err \o "\n" \o msg.v)
                            ELSE ResultErr(msg.v)],
             stop |-> TRUE, return |-> FALSE]
      [] msg.tag = "LogError" ->
            [job |-> [j EXCEPT
                        !.error_log = Append(@, msg.v),
                        !.progress =
                            IF ContainsError(msg.v)
                            THEN ResultErr(msg.v) ELSE @],
             stop |-> FALSE, return |-> FALSE]

\* The job's thread holds thread_r until it returns.
ThreadListens == worker \in {"spawn", "read", "join"}

\* The child has closed its pipes.
ChildGone == child \in {"exited", "crashed", "killed"}

\* child.kill()
Killed(c) == IF c = "running" THEN "killed" ELSE c

\* The history of a job no message of which was polled.
SeenNothing == [polled |-> <<>>, owed |-> 0]

JInit ==
    /\ \E d \in JobDurations : job = RenderJobNew(d)
    /\ reciever = <<>>
    /\ thread_r = <<>>
    /\ child = "none"
    /\ stdout_pipe = <<>>
    /\ stderr_pipe = <<>>
    /\ n_lines = 0
    /\ worker = "spawn"
    /\ logger = "none"
    /\ polling = "idle"
    /\ seen = SeenNothing

\* ffmpeg.spawn() succeeds: the two readers start.
WorkerSpawn ==
    /\ worker = "spawn"
    /\ child' = "running"
    /\ worker' = "read"
    /\ logger' = "read"
    /\ UNCHANGED <<tvars, ivars, front, graph, job, reciever, thread_r, stdout_pipe,
                   stderr_pipe, n_lines, polling, seen, session, build>>

\* ffmpeg.spawn() fails: the thread sends Err, whatever becomes of it, and
\* returns.
WorkerSpawnFails ==
    /\ worker = "spawn"
    /\ reciever' = IF polling = "dropped" THEN reciever
                   ELSE Append(reciever, [tag |-> "Err", v |-> SpawnError])
    /\ child' = "failed"
    /\ worker' = "done"
    /\ UNCHANGED <<tvars, ivars, front, graph, job, thread_r, stdout_pipe, stderr_pipe,
                   n_lines, logger, polling, seen, session, build>>

ChildStdout ==
    \E line \in StdoutLines :
        /\ child = "running"
        /\ n_lines < MaxLines
        /\ stdout_pipe' = Append(stdout_pipe, line)
        /\ n_lines' = n_lines + 1
        /\ UNCHANGED <<tvars, ivars, front, graph, job, reciever, thread_r, child,
                       stderr_pipe, worker, logger, polling, seen, session, build>>

ChildStderr ==
    \E line \in StderrLines :
        /\ child = "running"
        /\ n_lines < MaxLines
        /\ stderr_pipe' = Append(stderr_pipe, line)
        /\ n_lines' = n_lines + 1
        /\ UNCHANGED <<tvars, ivars, front, graph, job, reciever, thread_r, child,
                       stdout_pipe, worker, logger, polling, seen, session, build>>

\* The child exits by itself, with status 0 or with another one.
ChildExit ==
    /\ child = "running"
    /\ child' \in {"exited", "crashed"}
    /\ UNCHANGED <<tvars, ivars, front, graph, job, reciever, thread_r, stdout_pipe,
                   stderr_pipe, n_lines, worker, logger, polling, seen, session, build>>

WorkerLineStopIgnored ==
    /\ reciever' = reciever \o from_string(Head(stdout_pipe))
    /\ UNCHANGED <<child, worker>>

\* The stdout loop on a line with Stop waiting in thread_r: the child is killed
\* and the thread returns.
WorkerLineStop ==
    /\ child' = Killed(child)
    /\ worker' = "done"
    /\ UNCHANGED reciever

\* The stdout loop on a line otherwise: the line goes through from_string and
\* its message, if any, to the job; a job that is gone makes the thread kill
\* the child and panic.
WorkerLineForward ==
    IF from_string(Head(stdout_pipe)) # None /\ polling = "dropped"
    THEN /\ child' = Killed(child)
         /\ worker' = "panicked"
         /\ UNCHANGED reciever
    ELSE /\ reciever' = reciever \o from_string(Head(stdout_pipe))
         /\ UNCHANGED <<child, worker>>

\* One turn of the stdout loop.
WorkerLine ==
    /\ worker = "read"
    /\ stdout_pipe # <<>>
    /\ stdout_pipe' = Tail(stdout_pipe)
    /\ thread_r' = IF thread_r # <<>> THEN Tail(thread_r) ELSE thread_r
    /\ IF thread_r # <<>> /\ Head(thread_r) = Stop
       THEN WorkerLineStop
       ELSE WorkerLineForward
    /\ UNCHANGED <<tvars, ivars, front, graph, job, stderr_pipe, n_lines, logger, polling,
                   seen, session, build>>

\* End of the child's stdout: the loop ends and the thread joins the logger.
WorkerEof ==
    /\ worker = "read"
    /\ stdout_pipe = <<>>
    /\ ChildGone
    /\ worker' = "join"
    /\ UNCHANGED <<tvars, ivars, front, graph, job, reciever, thread_r, child, stdout_pipe,
                   stderr_pipe, n_lines, logger, polling, seen, session, build>>

\* thread.join().expect(..): a logger that panicked makes the thread panic.
WorkerJoin ==
    /\ worker = "join"
    /\ logger \in {"done", "panicked"}
    /\ worker' = IF logger = "done" THEN "done" ELSE "panicked"
    /\ UNCHANGED <<tvars, ivars, front, graph, job, reciever, thread_r, child, stdout_pipe,
                   stderr_pipe, n_lines, logger, polling, seen, session, build>>

\* One turn of the stderr loop: send(..).expect(..) panics when the job is gone.
LoggerLine ==
    /\ logger = "read"
    /\ stderr_pipe # <<>>
    /\ stderr_pipe' = Tail(stderr_pipe)
    /\ IF polling = "dropped"
       THEN /\ logger' = "panicked"
            /\ UNCHANGED reciever
       ELSE /\ reciever' = Append(reciever,
                                  [tag |-> "LogError", v |-> Head(stderr_pipe)])
            /\ UNCHANGED logger
    /\ UNCHANGED <<tvars, ivars, front, graph, job, thread_r, child, stdout_pipe, n_lines,
                   worker, polling, seen, session, build>>

LoggerEof ==
    /\ logger = "read"
    /\ stderr_pipe = <<>>
    /\ ChildGone
    /\ logger' = "done"
    /\ UNCHANGED <<tvars, ivars, front, graph, job, reciever, thread_r, child, stdout_pipe,
                   stderr_pipe, n_lines, worker, polling, seen, session, build>>

\* Front::poll_messages calls job.poll().
PollBegin ==
    /\ polling = "idle"
    /\ polling' = "loop"
    /\ seen' = [seen EXCEPT !.owed = Len(reciever)]
    /\ UNCHANGED <<tvars, ivars, front, graph, job, reciever, thread_r, child, stdout_pipe,
                   stderr_pipe, n_lines, worker, logger, session, build>>

\* recv.try_iter() yields a message: one turn of the loop. A Stop that cannot
\* be sent (the thread has returned) makes poll return the error.
PollMessage ==
    /\ polling = "loop"
    /\ reciever # <<>>
    /\ LET r == PollOne(job, Head(reciever))
       IN  /\ job' = r.job
           /\ reciever' = Tail(reciever)
           /\ thread_r' = IF r.stop /\ ThreadListens
                          THEN Append(thread_r, Stop) ELSE thread_r
           /\ polling' = IF r.return \/ (r.stop /\ ~ThreadListens)
                         THEN "idle" ELSE "loop"
    /\ seen' = [polled |-> Append(seen.polled, Head(reciever)),
                owed |-> IF seen.owed > 0 THEN seen.owed - 1 ELSE 0]
    /\ UNCHANGED <<tvars, ivars, front, graph, child, stdout_pipe, stderr_pipe, n_lines,
                   worker, logger, session, build>>

\* recv.try_iter() finds the channel empty: poll returns Ok.
PollEnd ==
    /\ polling = "loop"
    /\ reciever = <<>>
    /\ polling' = "idle"
    /\ UNCHANGED <<tvars, ivars, front, graph, job, reciever, thread_r, child, stdout_pipe,
                   stderr_pipe, n_lines, worker, logger, seen, session, build>>

\* The stop button, shown while the job is in Progress: job.kill() sends Stop
\* and render_jobs.clear() drops the job with its end of the channel.
Kill ==
    /\ polling = "idle"
    /\ job.progress.tag = "Progress"
    /\ thread_r' = IF ThreadListens THEN Append(thread_r, Stop) ELSE thread_r
    /\ reciever' = <<>>
    /\ polling' = "dropped"
    /\ UNCHANGED <<tvars, ivars, front, graph, job, child, stdout_pipe, stderr_pipe,
                   n_lines, worker, logger, seen, session, build>>

\* The close button, shown once the job has a Result: render_jobs.clear().
Close ==
    /\ polling = "idle"
    /\ job.progress.tag = "Result"
    /\ reciever' = <<>>
    /\ polling' = "dropped"
    /\ UNCHANGED <<tvars, ivars, front, graph, job, thread_r, child, stdout_pipe,
                   stderr_pipe, n_lines, worker, logger, seen, session, build>>

JobInit == TOff /\ IOff /\ JInit /\ FOff /\ GOff /\ SOff /\ BOff

JobNext ==
    \/ WorkerSpawn
    \/ WorkerSpawnFails
    \/ ChildStdout
    \/ ChildStderr
    \/ ChildExit
    \/ WorkerLine
    \/ WorkerEof
    \/ WorkerJoin
    \/ LoggerLine
    \/ LoggerEof
    \/ PollBegin
    \/ PollMessage
    \/ PollEnd
    \/ Kill
    \/ Close

SpecJob == JobInit /\ [][JobNext]_vars

\* The two reader threads are scheduled, and Front::update polls every job at
\* each repaint; nothing obliges the child to write or the user to click.
JobFairness ==
    /\ WF_vars(WorkerSpawn \/ WorkerSpawnFails)
    /\ WF_vars(WorkerLine)
    /\ WF_vars(WorkerEof)
    /\ WF_vars(WorkerJoin)
    /\ WF_vars(LoggerLine)
    /\ WF_vars(LoggerEof)
    /\ WF_vars(PollBegin)
    /\ WF_vars(PollMessage)
    /\ WF_vars(PollEnd)

FairJob == SpecJob /\ JobFairness

\* ------------------------------------------------------------------ poll

MaxScript == 6

\* The i-th line of a -progress report, as ffmpeg orders its keys, with a
\* variant of it; past the first report, any line.
ScriptSlot(i) ==
    CASE i = 1 -> { [key |-> "frame", value |-> 120],
                    [key |-> "drop_frames", value |-> 0] }
      [] i = 2 -> { [key |-> "fps", value |-> "29.7"] }
      [] i = 3 -> { [key |-> "out_time",
                     value |-> [unit |-> "Timestamp",
                                hours |-> 0, minutes |-> 0, seconds |-> 4000]],
                    [key |-> "out_time", value |-> [unit |-> "N/A"]] }
      [] i = 4 -> { [key |-> "speed", value |-> "1.02x"],
                    [key |-> "progress", value |-> "failed"] }
      [] i = 5 -> { [key |-> "progress", value |-> "continue"] }
      [] i = 6 -> { [key |-> "progress", value |-> "end"] }
      [] OTHER -> StdoutLines

RECURSIVE ScriptsOfLen(_)
ScriptsOfLen(k) ==
    IF k = 0
    THEN {<<>>}
    ELSE {Append(s, l) : s \in ScriptsOfLen(k - 1), l \in ScriptSlot(k)}

Scripts == UNION {ScriptsOfLen(k) : k \in 0..MaxScript}

\* A job whose child wrote its output and exited before either reader ran.
PollInit ==
    /\ TOff
    /\ IOff
    /\ \E d \in JobDurations : job = RenderJobNew(d)
    /\ reciever = <<>>
    /\ thread_r = <<>>
    /\ child = "exited"
    /\ stdout_pipe \in Scripts
    /\ stderr_pipe \in {<<>>} \cup {<<l>> : l \in StderrLines}
    /\ n_lines = Len(stdout_pipe) + Len(stderr_pipe)
    /\ worker = "read"
    /\ logger = "read"
    /\ polling = "idle"
    /\ seen = SeenNothing
    /\ FOff
    /\ GOff
    /\ SOff
    /\ BOff

PollNext ==
    \/ WorkerLine
    \/ WorkerEof
    \/ WorkerJoin
    \/ LoggerLine
    \/ LoggerEof
    \/ PollBegin
    \/ PollMessage
    \/ PollEnd

SpecPoll == PollInit /\ [][PollNext]_vars

\* ------------------------------------------------------------------ front

\* Indices of Front::render_jobs: one job per timeline of the render queue.
Siblings == {1, 2}

\* What a job's threads send once ffmpeg runs.
ThreadMessages ==
    { [tag |-> "Time",
       v |-> [unit |-> "Timestamp",
              hours |-> 0, minutes |-> 0, seconds |-> 4000]],
      [tag |-> "Progress", ok |-> TRUE, v |-> "end"],
      [tag |-> "Progress", ok |-> FALSE, v |-> "failed"],
      [tag |-> "LogError", v |-> "Error opening input"] }

\* RenderJob::poll as a whole on the messages q buffered in the job's channel:
\* [job, reciever, failed], failed when poll returns Err because Stop could
\* not be sent to a thread that has returned.
RECURSIVE PollAll(_, _, _)
PollAll(j, q, listens) ==
    IF q = <<>>
    THEN [job |-> j, reciever |-> q, failed |-> FALSE]
    ELSE LET r == PollOne(j, Head(q))
         IN  IF r.stop /\ ~listens
             THEN [job |-> r.job, reciever |-> Tail(q), failed |-> TRUE]
             ELSE IF r.return
             THEN [job |-> r.job, reciever |-> Tail(q), failed |-> FALSE]
             ELSE PollAll(r.job, Tail(q), listens)

\* Front::render on a queue of two timelines.
FInit ==
    \E d \in JobDurations :
        front = [render_jobs |->
                     [i \in Siblings |->
                         [job |-> RenderJobNew(d), reciever |-> <<>>,
                          thread |-> "spawn"]],
                 exit_code |-> None,
                 cursor |-> 0,
                 polled |-> {},
                 sent |-> 0,
                 closed |-> FALSE]

\* ffmpeg.spawn() of job i succeeds.
ThreadSpawn ==
    \E i \in Siblings :
        /\ front.render_jobs[i].thread = "spawn"
        /\ front' = [front EXCEPT !.render_jobs[i].thread = "read"]
        /\ UNCHANGED <<tvars, ivars, jvars, graph, session, build>>

\* ffmpeg.spawn() of job i fails: its thread sends Err and returns.
ThreadSpawnFails ==
    \E i \in Siblings :
        /\ front.render_jobs[i].thread = "spawn"
        /\ front' = [front EXCEPT
                        !.render_jobs[i].thread = "done",
                        !.render_jobs[i].reciever =
                            IF front.closed THEN @
                            ELSE Append(@, [tag |-> "Err", v |-> SpawnError])]
        /\ UNCHANGED <<tvars, ivars, jvars, graph, session, build>>

\* A reader of job i sends a message.
ThreadSends ==
    \E i \in Siblings, msg \in ThreadMessages :
        /\ front.render_jobs[i].thread = "read"
        /\ ~front.closed
        /\ front.sent < MaxLines
        /\ front' = [front EXCEPT
                        !.render_jobs[i].reciever = Append(@, msg),
                        !.sent = @ + 1]
        /\ UNCHANGED <<tvars, ivars, jvars, graph, session, build>>

\* The child of job i is gone and its thread returns.
ThreadReturns ==
    \E i \in Siblings :
        /\ front.render_jobs[i].thread = "read"
        /\ front' = [front EXCEPT !.render_jobs[i].thread = "done"]
        /\ UNCHANGED <<tvars, ivars, jvars, graph, session, build>>

\* Front::update calls poll_messages, which comes to its loop over the jobs.
UpdateBegin ==
    /\ front.cursor = 0
    /\ ~front.closed
    /\ front' = [front EXCEPT !.cursor = 1, !.polled = {}]
    /\ UNCHANGED <<tvars, ivars, jvars, graph, session, build>>

\* job.poll()? on the job under the cursor: an Err leaves the loop and becomes
\* the exit code.
PollJob ==
    /\ front.cursor \in Siblings
    /\ LET i == front.cursor
           r == PollAll(front.render_jobs[i].job,
                        front.render_jobs[i].reciever,
                        front.render_jobs[i].thread # "done")
       IN  front' = [front EXCEPT
                        !.render_jobs[i].job = r.job,
                        !.render_jobs[i].reciever = r.reciever,
                        !.polled = @ \cup {i},
                        !.exit_code = IF r.failed THEN Some("Render") ELSE @,
                        !.cursor = IF r.failed \/ i + 1 \notin Siblings
                                   THEN 0 ELSE i + 1]
    /\ UNCHANGED <<tvars, ivars, jvars, graph, session, build>>

\* The error box, shown instead of every widget while exit_code is an error:
\* its Ok button closes the application.
ErrorBoxOk ==
    /\ front.cursor = 0
    /\ ~front.closed
    /\ IsSome(front.exit_code)
    /\ front' = [front EXCEPT !.closed = TRUE]
    /\ UNCHANGED <<tvars, ivars, jvars, graph, session, build>>

FrontInit == TOff /\ IOff /\ JOff /\ FInit /\ GOff /\ SOff /\ BOff

FrontNext ==
    \/ ThreadSpawn
    \/ ThreadSpawnFails
    \/ ThreadSends
    \/ ThreadReturns
    \/ UpdateBegin
    \/ PollJob
    \/ ErrorBoxOk

SpecFront == FrontInit /\ [][FrontNext]_vars

\* ------------------------------------------------------------------ nodes

MaxConnects == 2

\* Pin indices the calls are made with: those of two pins and one past them.
PinIndices == 0..2

\* The kinds of the pins of one side of a Node.
PinKinds == {<<>>, <<"Video">>, <<"Video", "Audio">>}

\* Pins of the given kinds, named after their node, side and place.
Pins(prefix, kinds) ==
    [i \in 1..Len(kinds) |->
        [kind |-> kinds[i], name |-> prefix \o ToString(i - 1),
         target |-> None]]

\* Vec::get
Get(v, index) == IF index < Len(v) THEN Some(v[index + 1]) ELSE None

\* Pin::with_target
with_target(pin, target) == [pin EXCEPT !.target = target]

\* The Err both lookups of both methods return.
NoSink(sink_index) ==
    [ok |-> FALSE,
     msg |-> "can not get sink with index: " \o ToString(sink_index)]

connect_sinkEager(self, other, sink_index, source_index) ==
    LET sink == Get(self.inputs, sink_index)
        source == Get(other.outputs, source_index)
    IN  IF sink = None
        THEN [self |-> self, other |-> other, result |-> NoSink(sink_index)]
        ELSE IF source = None
        THEN [self |-> [self EXCEPT !.inputs[sink_index + 1] =
                            with_target(sink[1], Some("?"))],
              other |-> other, result |-> NoSink(sink_index)]
        ELSE [self |-> [self EXCEPT !.inputs[sink_index + 1] =
                            with_target(sink[1], Some(source[1].name))],
              other |-> [other EXCEPT !.outputs[source_index + 1] =
                            with_target(source[1], Some(sink[1].name))],
              result |-> [ok |-> TRUE]]

\* Node::connect_sink: [self, other, result]
connect_sink(self, other, sink_index, source_index) ==
    LET sink == Get(self.inputs, sink_index)
        source == Get(other.outputs, source_index)
    IN  IF sink = None
        THEN [self |-> self, other |-> other, result |-> NoSink(sink_index)]
        ELSE IF source = None
        THEN [self |-> self, other |-> other, result |-> NoSink(sink_index)]
        ELSE [self |-> [self EXCEPT !.inputs[sink_index + 1] =
                            with_target(sink[1], Some(source[1].name))],
              other |-> [other EXCEPT !.outputs[source_index + 1] =
                            with_target(source[1], Some(sink[1].name))],
              result |-> [ok |-> TRUE]]

\* Node::connect_source: [self, other, result]
connect_source(self, other, source_index, sink_index) ==
    LET sink == Get(other.inputs, sink_index)
        source == Get(self.outputs, source_index)
    IN  IF sink = None
        THEN [self |-> self, other |-> other, result |-> NoSink(sink_index)]
        ELSE IF source = None
        THEN [self |-> self, other |-> other, result |-> NoSink(sink_index)]
        ELSE [self |-> [self EXCEPT !.outputs[source_index + 1] =
                            with_target(source[1], Some(sink[1].name))],
              other |-> [other EXCEPT !.inputs[sink_index + 1] =
                            with_target(sink[1], Some(source[1].name))],
              result |-> [ok |-> TRUE]]

\* Two Nodes with unconnected pins.
GInit ==
    \E si, so, oi, oo \in PinKinds :
        graph = [self |-> [inputs |-> Pins("a.in", si),
                           outputs |-> Pins("a.out", so)],
                 other |-> [inputs |-> Pins("b.in", oi),
                            outputs |-> Pins("b.out", oo)],
                 last |-> [op |-> "none"],
                 calls |-> 0]

\* self.connect_sink(other, sink_index, source_index)
ConnectSink ==
    \E sink_index, source_index \in PinIndices :
        LET r == connect_sink(graph.self, graph.other, sink_index, source_index)
        IN  /\ graph.calls < MaxConnects
            /\ graph' = [self |-> r.self, other |-> r.other,
                         last |-> [op |-> "connect_sink",
                                   sink_index |-> sink_index,
                                   source_index |-> source_index,
                                   result |-> r.result,
                                   self |-> graph.self,
                                   other |-> graph.other],
                         calls |-> graph.calls + 1]
            /\ UNCHANGED <<tvars, ivars, jvars, front, session, build>>

\* self.connect_source(other, source_index, sink_index)
ConnectSource ==
    \E source_index, sink_index \in PinIndices :
        LET r == connect_source(graph.self, graph.other,
                                source_index, sink_index)
        IN  /\ graph.calls < MaxConnects
            /\ graph' = [self |-> r.self, other |-> r.other,
                         last |-> [op |-> "connect_source",
                                   sink_index |-> sink_index,
                                   source_index |-> source_index,
                                   result |-> r.result,
                                   self |-> graph.self,
                                   other |-> graph.other],
                         calls |-> graph.calls + 1]
            /\ UNCHANGED <<tvars, ivars, jvars, front, session, build>>

NodesInit == TOff /\ IOff /\ JOff /\ FOff /\ GInit /\ SOff /\ BOff

NodesNext ==
    \/ ConnectSink
    \/ ConnectSource

SpecNodes == NodesInit /\ [][NodesNext]_vars

\* ------------------------------------------------------------------ session

\* RenderMode and BoundsMode of the project's render settings.
RenderModes == {"MasterMix", "Stems", "RegionRenderMatrix"}

BoundsModes ==
    {"EntireProject", "Custom", "TimeSelection", "AllRegions",
     "SelectedItems", "SelectedRegions"}

\* The project as get_render_regions reads it: the render mode, the bounds
\* mode, the regions of the project and the render targets REAPER names.
Projects ==
    [mode : RenderModes,
     bounds : BoundsModes,
     n_regions : 0..MaxRegions,
     n_targets : 0..MaxRegions]

\* The i-th region of the project (i from 0), the render bounds and the time
\* selection, as (start, end).
RegionSpan(i) == <<10000 * i, 10000 * i + 8000>>

RenderBounds == <<1000, 9000>>

TimeSelection == <<2000, 5000>>

Ok(value) == [ok |-> TRUE, value |-> value]

Err(error) == [ok |-> FALSE, error |-> error]

\* get_render_targets(pr, idx): the idx-th target, if REAPER names one.
get_render_targets(pr, idx) ==
    IF idx < pr.n_targets
    THEN Ok([stem |-> "region" \o ToString(idx), extension |-> "wav"])
    ELSE Err("Can not estimate region output filename.")

RenderRegion(span, file) ==
    [start |-> span[1], end |-> span[2], file |-> file]

\* One RenderRegion with target 0, or the error of get_render_targets.
OneRegion(pr, span) ==
    LET file == get_render_targets(pr, 0)
    IN  IF file.ok THEN Ok(<< RenderRegion(span, file.value) >>) ELSE file

\* The loop of BoundsMode::AllRegions from region idx on: the first region
\* without a target ends it with the error, and bounds is dropped.
RECURSIVE AllRegions(_, _, _)
AllRegions(pr, idx, bounds) ==
    IF idx = pr.n_regions THEN Ok(bounds)
    ELSE LET file == get_render_targets(pr, idx)
         IN  IF file.ok
             THEN AllRegions(pr, idx + 1,
                             Append(bounds,
                                    RenderRegion(RegionSpan(idx), file.value)))
             ELSE file

\* Mutant: the regions that have a target are returned, the others left out.
get_render_regionsPartial(pr) ==
    IF pr.mode # "MasterMix"
    THEN Err("currently, supports just render with MasterMix in render settings")
    ELSE IF pr.bounds \in {"SelectedItems", "SelectedRegions"}
    THEN Err("No support for rendering selected items.")
    ELSE IF pr.bounds = "AllRegions"
    THEN Ok([i \in 1..Min(pr.n_regions, pr.n_targets) |->
                RenderRegion(RegionSpan(i - 1),
                             get_render_targets(pr, i - 1).value)])
    ELSE IF pr.n_targets = 0 THEN Ok(<< >>)
    ELSE OneRegion(pr, RenderBounds)

get_render_regions(pr) ==
    IF pr.mode # "MasterMix"
    THEN Err("currently, supports just render with MasterMix in render settings")
    ELSE CASE pr.bounds = "EntireProject" ->
                  OneRegion(pr, <<0, 10000 * pr.n_regions + 1000>>)
           [] pr.bounds = "Custom" -> OneRegion(pr, RenderBounds)
           [] pr.bounds = "TimeSelection" -> OneRegion(pr, TimeSelection)
           [] pr.bounds = "AllRegions" -> AllRegions(pr, 0, << >>)
           [] pr.bounds = "SelectedItems" ->
                  Err("No support for rendering selected items.")
           [] pr.bounds = "SelectedRegions" ->
                  Err("No support for render Matrix (selected regions)")

\* build_timeline of a project without video items: TimeLine::new.
build_timeline(reg) ==
    [outfile |-> reg.file,
     start |-> reg.start,
     end |-> reg.end,
     content |-> TimeLineContentNew(reg.end - reg.start)]

build_render_timelines(pr) ==
    LET render_regions == get_render_regions(pr)
    IN  IF render_regions.ok
        THEN Ok([i \in 1..Len(render_regions.value) |->
                    build_timeline(render_regions.value[i])])
        ELSE render_regions

\* The RenderJob Front::render pushes for a timeline, with the state of the
\* thread spawned for it.
SessionJob(tl) ==
    [filename |-> with_extension(tl.outfile, DefaultSettings.extension),
     job |-> RenderJobNew(tl.end - tl.start),
     render_script |-> get_render_job(render(tl.content, StreamIdNew),
                                      tl.outfile, DefaultSettings, << >>),
     thread |-> "spawned"]

SInit ==
    \E pr \in Projects :
        session = [project |-> pr,
                   parallel_render |-> TRUE,
                   asked |-> FALSE,
                   to_backend |-> << >>,
                   to_front |-> << >>,
                   backend |-> Ok("running"),
                   rendering |-> FALSE,
                   render_queue |-> << >>,
                   render_jobs |-> << >>]

\* The checkbox "render files parallel" of widget_render, clicked before the
\* render button.
ParallelCheckbox ==
    /\ ~session.asked
    /\ session' = [session EXCEPT !.parallel_render = ~@]
    /\ UNCHANGED <<tvars, ivars, jvars, front, graph, build>>

\* FrontMessage::Render: the front asks the back-end for the timelines.
EmitRender ==
    /\ ~session.asked
    /\ session' = [session EXCEPT
                      !.asked = TRUE,
                      !.to_backend = Append(@, [msg |-> "BuildRenderSequence"])]
    /\ UNCHANGED <<tvars, ivars, jvars, front, graph, build>>

\* Backend::run on IppMessage::BuildRenderSequence: the timelines are sent
\* to the client, or run returns the error and nothing is sent.
BuildRenderSequence ==
    /\ session.backend = Ok("running")
    /\ session.to_backend # << >>
    /\ LET r == build_render_timelines(session.project)
       IN  session' = [session EXCEPT
                          !.to_backend = Tail(@),
                          !.to_front =
                              IF r.ok
                              THEN Append(@, [msg |-> "RenderSequence",
                                              timelines |-> r.value])
                              ELSE @,
                          !.backend = IF r.ok THEN @ ELSE r]
    /\ UNCHANGED <<tvars, ivars, jvars, front, graph, build>>

\* poll_messages on IppMessage::RenderSequence(s): self.render(s) is entered
\* with s as its render_queue.
RenderSequence ==
    /\ ~session.rendering
    /\ session.to_front # << >>
    /\ session' = [session EXCEPT
                      !.to_front = Tail(@),
                      !.rendering = TRUE,
                      !.render_queue = Head(session.to_front).timelines]
    /\ UNCHANGED <<tvars, ivars, jvars, front, graph, build>>

\* One turn of the loop of Front::render: the timeline is lowered, its job is
\* pushed and its thread is spawned.
RenderTimeline ==
    /\ session.rendering
    /\ session.render_queue # << >>
    /\ session' = [session EXCEPT
                      !.render_queue = Tail(@),
                      !.render_jobs =
                          Append(@, SessionJob(Head(session.render_queue)))]
    /\ UNCHANGED <<tvars, ivars, jvars, front, graph, build>>

\* Front::render returns Ok(()) once the queue is used up.
RenderReturns ==
    /\ session.rendering
    /\ session.render_queue = << >>
    /\ session' = [session EXCEPT !.rendering = FALSE]
    /\ UNCHANGED <<tvars, ivars, jvars, front, graph, build>>

\* The thread of a job runs ffmpeg.spawn(): the external process exists, or
\* the thread reports the error and returns.
JobThreadSpawns ==
    \E i \in 1..Len(session.render_jobs) :
        /\ session.render_jobs[i].thread = "spawned"
        /\ session' = [session EXCEPT !.render_jobs[i].thread = "child"]
        /\ UNCHANGED <<tvars, ivars, jvars, front, graph, build>>

JobThreadFails ==
    \E i \in 1..Len(session.render_jobs) :
        /\ session.render_jobs[i].thread = "spawned"
        /\ session' = [session EXCEPT !.render_jobs[i].thread = "failed"]
        /\ UNCHANGED <<tvars, ivars, jvars, front, graph, build>>

SessionInit == TOff /\ IOff /\ JOff /\ FOff /\ GOff /\ SInit /\ BOff

SessionNext ==
    \/ ParallelCheckbox
    \/ EmitRender
    \/ BuildRenderSequence
    \/ RenderSequence
    \/ RenderTimeline
    \/ RenderReturns
    \/ JobThreadSpawns
    \/ JobThreadFails

SpecSession == SessionInit /\ [][SessionNext]_vars

\* ------------------------------------------------------------------ project

MaxItems == 2

\* The region build_timeline is called for, in project time.
BuildRegion == [start |-> 8000, end |-> 19000]

\* A media item with its active take: the file is the take's source.
Item(file, position, end_position, start_offset, fade_in, fade_out) ==
    [file |-> file,
     position |-> position,
     end_position |-> end_position,
     is_muted |-> FALSE,
     type_string |-> "VIDEO",
     start_offset |-> start_offset,
     fade_in |-> fade_in,
     fade_out |-> fade_out,
     filters |-> IF file % 2 = 0 THEN <<>> ELSE <<"hflip">>]

\* The items a track can hold, in the order of their positions: ending at the
\* region start, cut by it, covering the region, a WAVE item, inside the
\* region, muted, cut by the region end (twice) and starting at the region end.
ProjectItems ==
    << Item(1, 0, 8000, 0, 0, 0),
       Item(2, 0, 10000, 1500, 0, 1000),
       Item(3, 8000, 19000, 0, 0, 0),
       [Item(4, 9000, 14000, 0, 0, 0) EXCEPT !.type_string = "WAVE"],
       Item(5, 12000, 15000, 1500, 1000, 1000),
       [Item(6, 12000, 15000, 0, 0, 0) EXCEPT !.is_muted = TRUE],
       Item(7, 13000, 25000, 0, 1000, 0),
       Item(8, 16000, 30000, 0, 4000, 0),
       Item(9, 19000, 25000, 0, 0, 0) >>

\* The items of one track: REAPER keeps them in the order of their positions.
TrackItems ==
    LET picks == UNION {[1..n -> 1..Len(ProjectItems)] : n \in 0..MaxItems}
        ordered == {s \in picks : \A i \in 1..(Len(s) - 1) : s[i] < s[i + 1]}
    IN  {[i \in 1..Len(s) |-> ProjectItems[s[i]]] : s \in ordered}

TrackModes == {"plain", "muted", "solo"}

Track(index, mode, items) ==
    [index |-> index,
     muted |-> mode = "muted",
     solo |-> mode = "solo",
     filters |-> IF index = 0 THEN <<>> ELSE <<"vflip">>,
     items |-> items]

\* pr.any_track_solo()
any_track_solo(pr) == \E i \in 1..Len(pr) : pr[i].solo

\* Mutant: the tracks are taken from the first to the last.
iter_tracks_fwd(pr) == pr

\* pr.iter_tracks().rev(): the tracks from the last to the first.
iter_tracks_rev(pr) == [i \in 1..Len(pr) |-> pr[Len(pr) + 1 - i]]

\* The four `continue`s of the item loop.
ItemIsSkipped(item, start, end) ==
    \/ item.position >= end
    \/ item.end_position <= start
    \/ item.is_muted
    \/ item.type_string # "VIDEO"

\* Mutant: the source offset is the take's, whatever the region cuts off.
ItemVideoInputTakeOffset(track, item, start, end) ==
    [file |-> item.file,
     source_offset |-> item.start_offset,
     filter_chain |-> item.filters \o track.filters,
     timeline_position |->
        IF start < item.position THEN item.position - start ELSE 0,
     timeline_end_position |->
        IF end > item.end_position
        THEN item.end_position - start ELSE end - start,
     fade_in |-> IF item.fade_in = 0 THEN None ELSE Some(item.fade_in),
     fade_out |-> IF item.fade_out = 0 THEN None ELSE Some(item.fade_out),
     track_index |-> track.index]

\* The VideoInput build_timeline makes of an item it does not skip.
ItemVideoInput(track, item, start, end) ==
    [file |-> item.file,
     source_offset |->
        IF start > item.position
        THEN item.start_offset + (start - item.position)
        ELSE item.start_offset,
     filter_chain |-> item.filters \o track.filters,
     timeline_position |->
        IF start < item.position THEN item.position - start ELSE 0,
     timeline_end_position |->
        IF end > item.end_position
        THEN item.end_position - start ELSE end - start,
     fade_in |-> IF item.fade_in = 0 THEN None ELSE Some(item.fade_in),
     fade_out |-> IF item.fade_out = 0 THEN None ELSE Some(item.fade_out),
     track_index |-> track.index]

\* The positions push_video hands to split, in the order of the calls: none
\* when the assertion fires or the fast path is taken, and no second call
\* when the first one panics.
SplitCalls(self, video) ==
    IF ~(video.track_index <= self.z_index)
    THEN <<>>
    ELSE IF /\ video.fade_in = None
            /\ video.fade_out = None
            /\ video.timeline_position = self.timeline_position
            /\ video.timeline_end_position = self.timeline_end_position
    THEN <<>>
    ELSE
    LET solid_start == SolidStart(video)
        solid_end   == SolidEnd(video)
        first == IF solid_start = self.timeline_position
                 THEN <<>> ELSE <<solid_start>>
        lpanic == first # <<>> /\ IsPanic(split(self, solid_start)[1])
    IN  IF lpanic \/ solid_end = self.timeline_end_position
        THEN first
        ELSE Append(first, solid_end)

\* The state build_timeline starts from: TimeLine::new over the region, the
\* cursor before the first track of the traversal.
BInit ==
    \E modes \in [1..NTracks -> TrackModes],
       items \in [1..NTracks -> TrackItems] :
        build = [tracks |-> [i \in 1..NTracks |->
                                Track(i - 1, modes[i], items[i])],
                 start |-> BuildRegion.start,
                 end |-> BuildRegion.end,
                 at |-> "track",
                 track |-> 1,
                 idx |-> 0,
                 content |-> TimeLineContentNew(BuildRegion.end
                                                - BuildRegion.start),
                 panic |-> "none",
                 pushed |-> None,
                 item |-> None,
                 before |-> None,
                 splits |-> <<>>]

\* The track under the cursor.
BuildTrack == iter_tracks_rev(build.tracks)[build.track]

\* The cursor moved past the track it is on.
PastTrack ==
    [build EXCEPT !.track = @ + 1,
                  !.idx = 0,
                  !.at = IF build.track = Len(build.tracks)
                         THEN "done" ELSE "track"]

\* A muted track, or a track that is not soloed while another is: continue.
TrackSkipped ==
    /\ build # <<>>
    /\ build.at = "track"
    /\ \/ BuildTrack.muted
       \/ any_track_solo(build.tracks) /\ ~BuildTrack.solo
    /\ build' = PastTrack
    /\ UNCHANGED <<tvars, ivars, jvars, front, graph, session>>

\* The item loop of the track begins.
TrackEntered ==
    /\ build # <<>>
    /\ build.at = "track"
    /\ ~BuildTrack.muted
    /\ ~(any_track_solo(build.tracks) /\ ~BuildTrack.solo)
    /\ build' = [build EXCEPT !.at = "items", !.idx = 0]
    /\ UNCHANGED <<tvars, ivars, jvars, front, graph, session>>

\* An item outside the region, muted, or not a video: continue.
ItemSkipped ==
    /\ build # <<>>
    /\ build.at = "items"
    /\ build.idx < Len(BuildTrack.items)
    /\ ItemIsSkipped(BuildTrack.items[build.idx + 1], build.start, build.end)
    /\ build' = [build EXCEPT !.idx = @ + 1]
    /\ UNCHANGED <<tvars, ivars, jvars, front, graph, session>>

\* timeline.push(VideoInput {..}) for the item under the cursor.
ItemPushed ==
    /\ build # <<>>
    /\ build.at = "items"
    /\ build.idx < Len(BuildTrack.items)
    /\ LET item == BuildTrack.items[build.idx + 1]
           video == ItemVideoInput(BuildTrack, item, build.start, build.end)
           r == push_video(build.content, video)
       IN  /\ ~ItemIsSkipped(item, build.start, build.end)
           /\ build' = [build EXCEPT
                 !.idx = @ + 1,
                 !.content = r.tree,
                 !.panic = r.panic,
                 !.at = IF r.panic = "none" THEN "items" ELSE "panicked",
                 !.pushed = Some(video),
                 !.item = Some(item),
                 !.before = Some(
                     [z_index |-> build.content.z_index,
                      timeline_position |-> build.content.timeline_position,
                      timeline_end_position |->
                          build.content.timeline_end_position]),
                 !.splits = SplitCalls(build.content, video)]
    /\ UNCHANGED <<tvars, ivars, jvars, front, graph, session>>

\* The items of the track are exhausted.
TrackDone ==
    /\ build # <<>>
    /\ build.at = "items"
    /\ build.idx = Len(BuildTrack.items)
    /\ build' = PastTrack
    /\ UNCHANGED <<tvars, ivars, jvars, front, graph, session>>

BuildInit == TOff /\ IOff /\ JOff /\ FOff /\ GOff /\ SOff /\ BInit

BuildNext ==
    \/ TrackSkipped
    \/ TrackEntered
    \/ ItemSkipped
    \/ ItemPushed
    \/ TrackDone

SpecBuild == BuildInit /\ [][BuildNext]_vars

\* ------------------------------------------------------------------ claims

Returned == last.path \in {"fast", "general"} /\ last.panic = "none"

HasLeaf(tree, leaf) == \E i \in 1..Len(Leaves(tree)) : Leaves(tree)[i] = leaf

HasKind(tree, kind) == \E i \in 1..Len(Nodes(tree)) : Nodes(tree)[i].kind = kind

\* C1: after every push_video call that returns, the root still records the
\* span [0, region) and the composite that became its content starts at 0
\* and ends at the region's duration.
C1_RootSpansRegion ==
    /\ root.timeline_position = 0
    /\ root.timeline_end_position = region
    /\ Returned => /\ last.start = 0
                   /\ last.end = region
                   /\ root.kind \in {"Concat", "XFade"} =>
                         /\ root.left.timeline_position = 0
                         /\ root.right.timeline_end_position = region

C1_Witness ==
    /\ npush = MaxPush
    /\ Returned
    /\ last.path = "general"
    /\ root.kind = "XFade"
    /\ root.left.kind = "Concat"

\* C2: no in-order push_video of a video inside the region whose fades fit
\* trips a Concat::new or XFade::new assertion, and every Concat and XFade of
\* the resulting tree meets its seam condition.
C2_PushKeepsSeams ==
    /\ last.path # "none" =>
          last.panic \notin {"wrong connection", "wrong duration length"}
    /\ SeamsOk(root)

\* The two videos of the cross-fade case: A = [0, a) fading out over a - b and
\* B = [b, region) fading in over a - b, on track t.
XFadeCaseA(a, b, t) == VideoInput(ClipOf(0), 0, a, None, Some(a - b), t)

XFadeCaseB(a, b, t) == VideoInput(ClipOf(1), b, region, Some(a - b), None, t)

XFadeCase(a, b, t) ==
    /\ 0 < b /\ b < a
    /\ pc = "rendered"
    /\ npush = 2
    /\ Returned
    /\ last.video = XFadeCaseB(a, b, t)
    /\ HasLeaf(root, VideoNew(XFadeCaseA(a, b, t)))

\* C3: A = [0, a) with fade_out f, then B = [a - f, n) with fade_in f on the
\* same track of the region [0, n), lowers to exactly one xfade stage, of
\* duration f and offset a - f.
C3_OneXFadeStage ==
    \A a \in InnerInstants, b \in InnerInstants, t \in 0..(NTracks - 1) :
        XFadeCase(a, b, t) =>
            LET x == StagesNamed(rendered[1], "xfade")
            IN  /\ Len(x) = 1
                /\ x[1].duration = a - b
                /\ x[1].offset = b

\* The two videos of the concat case: A = [0, m) on track ta, then
\* B = [m, region) on track tb, neither with a fade.
ConcatCaseA(m, ta) == VideoInput(ClipOf(0), 0, m, None, None, ta)

ConcatCaseB(m, tb) == VideoInput(ClipOf(1), m, region, None, None, tb)

ConcatCase(m, ta, tb) ==
    /\ pc = "rendered"
    /\ npush = 2
    /\ Returned
    /\ last.video = ConcatCaseB(m, tb)
    /\ HasLeaf(root, VideoNew(ConcatCaseA(m, ta)))

\* C4: two fade-less videos A = [0, m) then B = [m, n) in the region [0, n)
\* give a root that is the Concat of the two Video leaves; the lowering has
\* exactly one concat stage, fed by the labels of the two leaves' chains, no
\* Background (color) stage, and the composition lasts n.
C4_ConcatOfTwo ==
    \A m \in InnerInstants, ta \in 0..(NTracks - 1), tb \in 0..(NTracks - 1) :
        ConcatCase(m, ta, tb) =>
            LET r == rendered[1]
                c == Chains(r)
            IN  /\ root.kind = "Concat"
                /\ root.left = VideoNew(ConcatCaseA(m, ta))
                /\ root.right = VideoNew(ConcatCaseB(m, tb))
                /\ Len(StagesNamed(r, "concat")) = 1
                /\ Len(c) = 3
                /\ c[1].ins = <<"0:v">> /\ c[2].ins = <<"1:v">>
                /\ r.inputs[6] = 0 /\ r.inputs[12] = 1
                /\ c[3].stages[1].name = "concat"
                /\ c[3].ins = <<c[1].out[1], c[2].out[1]>>
                /\ c[1].out[1] # c[2].out[1]
                /\ StagesNamed(r, "color") = <<>>
                /\ TreeDuration(root) = region

C4_Witness ==
    \E m \in InnerInstants, ta \in 0..(NTracks - 1), tb \in 0..(NTracks - 1) :
        ConcatCase(m, ta, tb)

\* C5: a returned push_video of a video with no fades whose start and end are
\* the root's leaves the root a single Video leaf of that video, z_index the
\* video's track index, the span still [0, region).
C5_FastPathOccludes ==
    ( /\ Returned
      /\ last.video.fade_in = None
      /\ last.video.fade_out = None
      /\ last.video.timeline_position = root.timeline_position
      /\ last.video.timeline_end_position = root.timeline_end_position )
    => /\ root = VideoNew(last.video)
       /\ root.z_index = last.video.track_index
       /\ root.timeline_position = 0
       /\ root.timeline_end_position = region

C5_Witness ==
    /\ npush = MaxPush
    /\ Returned
    /\ last.path = "fast"
    /\ last.video.track_index < NTracks - 1
    /\ root.kind = "Video"

\* What split does at position p of tree n: cut a leaf, hand back the two
\* children of a Concat whose seam is p, or cut both children of an XFade
\* inside whose overlap window p lies.
RECURSIVE SplitSite(_, _)
SplitSite(n, p) ==
    CASE n.kind = "Concat" ->
            IF p = n.left.timeline_end_position THEN [what |-> "seam"]
            ELSE IF p < n.left.timeline_end_position
                 THEN SplitSite(n.left, p)
                 ELSE SplitSite(n.right, p)
      [] n.kind = "XFade" ->
            IF p <= n.left.timeline_end_position - n.fade_duration
            THEN SplitSite(n.left, p)
            ELSE IF n.right.timeline_position + n.fade_duration <= p
                 THEN SplitSite(n.right, p)
                 ELSE [what |-> "overlap"]
      [] OTHER -> [what |-> "leaf", leaf |-> n]

C7_LoweringKeepsDuration ==
    pc = "rendered" =>
        LoweredDuration(rendered[1])
            = root.timeline_end_position - root.timeline_position

\* C8: the ids drawn in one lowering pass, one per node of the tree, are
\* pairwise distinct.
C8_StreamIdsUnique ==
    pc = "rendered" =>
        /\ Len(StreamIds(rendered[1])) = Len(Nodes(root))
        /\ NoDuplicates(StreamIds(rendered[1]))

C8_Witness ==
    /\ pc = "rendered"
    /\ HasKind(root, "Concat")
    /\ HasKind(root, "XFade")
    /\ HasKind(root, "Background")
    /\ Len(SelectSeq(Leaves(root), LAMBDA n : n.kind = "Video")) >= 3

\* The calls before the i-th that asked for the same prefix.
EarlierCalls(i) ==
    Cardinality({j \in 1..(i - 1) : id_log[j].prefix = id_log[i].prefix})

\* C9: id(p) returns p followed by the number of earlier calls with the same
\* prefix, whatever calls with other prefixes came in between.
C9_IdIsPrefixThenCount ==
    \A i \in 1..Len(id_log) :
        id_log[i].new_id = id_log[i].prefix \o ToString(EarlierCalls(i))

C9_Witness ==
    /\ Len(id_log) = MaxCalls
    /\ id_log[1].prefix = "video"
    /\ id_log[2].prefix = "video"
    /\ id_log[3].prefix = "background"
    /\ id_log[4].prefix = "background"
    /\ id_log[5] = [prefix |-> "video", new_id |-> "video2"]

\* C10: once the job's progress is Result(Err(_)), no message polled later
\* makes it Progress(_) or Result(Ok).
C10_ErrIsLatched ==
    [][IsErr(job.progress) => IsErr(job.progress')]_vars

\* C11: a job starts in Progress(0.0), and once its progress is Result(Ok) no
\* message polled later changes it.
C11_OkIsTerminal ==
    /\ job.progress = InProgress(0, job.duration)
    /\ [][job.progress = ResultOk => job.progress' = ResultOk]_vars

\* poll latches Result(Err) in this step because of a stderr line with the
\* marker or of a progress word that is neither continue nor end.
LatchesOnLine ==
    /\ polling = "loop"
    /\ reciever # <<>>
    /\ \/ /\ Head(reciever).tag = "LogError"
          /\ ContainsError(Head(reciever).v)
       \/ /\ Head(reciever).tag = "Progress"
          /\ ~Head(reciever).ok
    /\ IsErr(job.progress')

\* C13: whenever poll latches Result(Err) because of a stderr line with the
\* marker or of a progress error word, it also sends Stop to the job's thread.
C13_LatchSendsStop ==
    [][LatchesOnLine => thread_r' = Append(thread_r, Stop)]_vars

\* ffmpeg could not be spawned, exited with a status other than 0, or wrote a
\* progress error word or a stderr line with the marker.
SubprocessError ==
    \/ child \in {"failed", "crashed"}
    \/ \E i \in 1..Len(stdout_pipe) :
          /\ stdout_pipe[i].key = "progress"
          /\ stdout_pipe[i].value \notin {"continue", "end"}
    \/ \E i \in 1..Len(stderr_pipe) : ContainsError(stderr_pipe[i])

\* C14: every subprocess-level error of a job that keeps being polled
\* eventually makes the job's progress Result(Err(_)).
C14_ErrorsAreReported ==
    SubprocessError ~> (IsErr(job.progress) \/ polling = "dropped")

\* The messages of one report: frame, fps, out_time, speed, progress=continue.
IsReport(p) ==
    /\ Len(p) >= 5
    /\ p[1].tag = "Frame"
    /\ p[2].tag = "Fps"
    /\ p[3].tag = "Time"
    /\ p[4].tag = "Speed"
    /\ p[5] = [tag |-> "Progress", ok |-> TRUE, v |-> "continue"]

\* A message whose polling reports an error.
IsErrorMessage(m) ==
    \/ m.tag = "Err"
    \/ m.tag = "Progress" /\ ~m.ok
    \/ m.tag = "LogError" /\ ContainsError(m.v)

\* C12: after polling frame=n, fps=f, out_time=t, speed=s, progress=continue on
\* a fresh job, last_status holds n, f, t, s and progress is
\* Progress(t / duration); a progress=end polled afterwards, no error having
\* been polled before it, makes progress Result(Ok).
C12_ReportThenEnd ==
    LET p == seen.polled
    IN  /\ (IsReport(p) /\ Len(p) = 5) =>
              /\ job.last_status =
                    [frame |-> p[1].v, fps |-> p[2].v, time |-> p[3].v,
                     speed |-> p[4].v,
                     progress |-> [ok |-> TRUE, v |-> "continue"]]
              /\ job.progress =
                    [tag |-> "Progress", num |-> as_duration(p[3].v),
                     den |-> job.duration]
        /\ ( /\ IsReport(p)
             /\ Len(p) > 5
             /\ p[Len(p)] = [tag |-> "Progress", ok |-> TRUE, v |-> "end"]
             /\ \A i \in 1..Len(p) : ~IsErrorMessage(p[i]) ) =>
              job.progress = [tag |-> "Result", ok |-> TRUE]

C12_Witness ==
    /\ IsReport(seen.polled)
    /\ Len(seen.polled) = 6
    /\ seen.polled[6] = [tag |-> "Progress", ok |-> TRUE, v |-> "end"]
    /\ job.progress = ResultOk
    /\ job.last_status.frame = 120
    /\ as_duration(job.last_status.time) = 4000

\* C15: a failure of one render job does not affect its siblings: every
\* polling cycle polls every job.
C15_SiblingsStillPolled ==
    [][(front.cursor # 0 /\ front'.cursor = 0) => front'.polled = Siblings]_vars

\* C16: poll never blocks, and when it returns it has consumed every message
\* that was buffered in the job's channel when it was called.
C16_PollDrains ==
    [][(polling = "loop" /\ polling' = "idle") => seen'.owed = 0]_vars

\* The stdout reader takes a line in this step.
ReadsLine ==
    /\ worker = "read"
    /\ stdout_pipe # <<>>
    /\ stdout_pipe' = Tail(stdout_pipe)

StopWaits == thread_r # <<>> /\ Head(thread_r) = Stop

\* C17: with Stop in the job's control channel, the stdout reader at the next
\* line it reads kills the child and returns, forwarding neither that line nor
\* a later one; putting Stop there interrupts nothing.
C17_StopAtNextLine ==
    [][ /\ (ReadsLine /\ StopWaits) =>
              /\ child' # "running"
              /\ worker' = "done"
              /\ reciever' = reciever
        /\ worker = "done" =>
              /\ worker' = "done"
              /\ Len(stdout_pipe') >= Len(stdout_pipe)
        /\ Len(thread_r') > Len(thread_r) =>
              /\ worker' = worker
              /\ child' = child
              /\ stdout_pipe' = stdout_pipe ]_vars

C17_Witness ==
    /\ polling = "dropped"
    /\ worker = "done"
    /\ child = "killed"
    /\ stdout_pipe # <<>>
    /\ thread_r = <<>>

\* poll takes a message in this step.
PollsMessage ==
    /\ polling = "loop"
    /\ reciever # <<>>
    /\ reciever' = Tail(reciever)

\* C18: a progress line with word continue or end is decoded as a non-error
\* progress message and one with any other word w as an error, the polling of
\* which sets the job's progress to Result(Err(w)).
C18_ProgressWords ==
    [][ /\ ( /\ ReadsLine
             /\ ~StopWaits
             /\ polling # "dropped"
             /\ Head(stdout_pipe).key = "progress" ) =>
              reciever' =
                  Append(reciever,
                         [tag |-> "Progress",
                          ok |-> Head(stdout_pipe).value
                                     \in {"continue", "end"},
                          v |-> Head(stdout_pipe).value])
        /\ (PollsMessage /\ Head(reciever).tag = "Progress") =>
              IF Head(reciever).ok
              THEN IsErr(job'.progress) = IsErr(job.progress)
              ELSE job'.progress =
                       [tag |-> "Result", ok |-> FALSE,
                        err |-> Head(reciever).v] ]_vars

C18_Witness ==
    /\ seen.polled # <<>>
    /\ seen.polled[Len(seen.polled)] =
           [tag |-> "Progress", ok |-> FALSE, v |-> "failed"]
    /\ job.progress = ResultErr("failed")
    /\ job.last_status.progress = [ok |-> FALSE, v |-> "failed"]

KnownKeys == {"frame", "fps", "out_time", "speed", "progress"}

OutOfRange ==
    LET l == graph.last
    IN  IF l.op = "connect_sink"
        THEN \/ l.sink_index >= Len(l.self.inputs)
             \/ l.source_index >= Len(l.other.outputs)
        ELSE \/ l.source_index >= Len(l.self.outputs)
             \/ l.sink_index >= Len(l.other.inputs)

\* C20: connect_sink and connect_source called with a sink or source index
\* out of range return an error and leave every pin of both nodes unchanged.
C20_OutOfRangeIsError ==
    (graph.last.op # "none" /\ OutOfRange) =>
        /\ ~graph.last.result.ok
        /\ graph.self = graph.last.self
        /\ graph.other = graph.last.other

\* A connect_sink whose sink exists and whose source does not, on nodes an
\* earlier call has connected.
C20_Witness ==
    /\ graph.last.op = "connect_sink"
    /\ graph.last.sink_index < Len(graph.last.self.inputs)
    /\ graph.last.source_index >= Len(graph.last.other.outputs)
    /\ ~graph.last.result.ok
    /\ \E i \in 1..Len(graph.self.inputs) : IsSome(graph.self.inputs[i].target)

\* The sink and the source the last call named, both in range.
LastSink ==
    LET l == graph.last
    IN  IF l.op = "connect_sink"
        THEN l.self.inputs[l.sink_index + 1]
        ELSE l.other.inputs[l.sink_index + 1]

LastSource ==
    LET l == graph.last
    IN  IF l.op = "connect_sink"
        THEN l.other.outputs[l.source_index + 1]
        ELSE l.self.outputs[l.source_index + 1]

\* C21: connecting a Video pin with an Audio pin through connect_sink or
\* connect_source is rejected with an error and binds neither pin.
C21_KindMismatchIsError ==
    ( /\ graph.last.op # "none"
      /\ ~OutOfRange
      /\ LastSink.kind # LastSource.kind ) =>
        /\ ~graph.last.result.ok
        /\ graph.self = graph.last.self
        /\ graph.other = graph.last.other

\* Every pin of the two nodes.
AllPins ==
    LET Range(s) == {s[i] : i \in 1..Len(s)}
    IN  Range(graph.self.inputs) \cup Range(graph.self.outputs)
            \cup Range(graph.other.inputs) \cup Range(graph.other.outputs)

\* C28: after any sequence of connect calls that returned Ok, a pin whose
\* target is the name of a pin q is the target of q.
C28_BindingIsSymmetric ==
    \A pin \in AllPins, q \in AllPins :
        pin.target = Some(q.name) => q.target = Some(pin.name)

\* C24: a split whose position lies strictly inside the overlap window of an
\* XFade returns two subtrees without an assertion failure; they span
\* [start, position) and [position, end) and their durations add up to the
\* duration of the node that was split.
C24_SplitInsideOverlap ==
    (pc = "probed" /\ SplitSite(root, probe[1].position).what = "overlap") =>
        /\ panic = "none"
        /\ ~IsPanic(probe[1].left)
        /\ ~IsPanic(probe[1].right)
        /\ probe[1].left.timeline_position = root.timeline_position
        /\ probe[1].left.timeline_end_position = probe[1].position
        /\ probe[1].right.timeline_position = probe[1].position
        /\ probe[1].right.timeline_end_position = root.timeline_end_position
        /\ TreeDuration(probe[1].left) + TreeDuration(probe[1].right)
               = TreeDuration(root)

\* Position p lies strictly inside the overlap window of an XFade of tree n.
RECURSIVE InAnOverlap(_, _)
InAnOverlap(n, p) ==
    CASE n.kind = "XFade" ->
            \/ n.right.timeline_position < p /\ p < n.left.timeline_end_position
            \/ InAnOverlap(n.left, p)
            \/ InAnOverlap(n.right, p)
      [] n.kind = "Concat" -> InAnOverlap(n.left, p) \/ InAnOverlap(n.right, p)
      [] OTHER -> FALSE

SplitSpans(n, p, s) ==
    /\ ~IsPanic(s[1])
    /\ ~IsPanic(s[2])
    /\ s[1].timeline_position = n.timeline_position
    /\ s[1].timeline_end_position = p
    /\ s[2].timeline_position = p
    /\ s[2].timeline_end_position = n.timeline_end_position

\* C25: split of a node at a position strictly inside its span and strictly
\* inside no overlap window of its subtree returns a left part spanning
\* [node.start, position) and a right part spanning [position, node.end);
\* checked on the split of the timeline and on every node of the timeline.
C25_SplitSpans ==
    /\ (pc = "probed" /\ ~InAnOverlap(root, probe[1].position)) =>
           /\ panic = "none"
           /\ SplitSpans(root, probe[1].position,
                         <<probe[1].left, probe[1].right>>)
    /\ \A i \in 1..Len(Nodes(root)) :
         \A p \in Instants(region) :
            LET n == Nodes(root)[i]
            IN  ( /\ n.timeline_position < p
                  /\ p < n.timeline_end_position
                  /\ ~InAnOverlap(n, p) ) => SplitSpans(n, p, split(n, p))

C25_Witness ==
    /\ pc = "probed"
    /\ panic = "none"
    /\ root.kind = "XFade"
    /\ root.left.kind = "Concat"
    /\ ~InAnOverlap(root, probe[1].position)
    /\ probe[1].position < root.left.left.timeline_end_position
    /\ probe[1].right.kind = "XFade"
    /\ probe[1].right.left.kind = "Concat"

\* The two pieces of Video node v cut at p, as C26 words them.
VideoPieces(v, p, s) ==
    /\ s[1].kind = "Video" /\ s[2].kind = "Video"
    /\ s[1].fade_in = v.fade_in
    /\ s[1].fade_out = None
    /\ s[2].fade_out = v.fade_out
    /\ s[2].fade_in = None
    /\ s[1].source_offset = v.source_offset
    /\ s[2].source_offset = v.source_offset + (p - v.timeline_position)
    /\ \A k \in 1..2 : /\ s[k].file = v.file
                       /\ s[k].filter_chain = v.filter_chain
                       /\ s[k].z_index = v.z_index

\* C26: split of a Video node at p gives a left Video with the node's fade_in
\* and no fade_out, and a right Video with the node's fade_out, no fade_in and
\* source_offset advanced by p - start; file, filter chain and z_index are
\* kept by both. Checked on every Video of the timeline, and on the two
\* pieces a split of the timeline leaves in its parts when it cuts a Video.
C26_SplitVideoPieces ==
    /\ \A i \in 1..Len(Leaves(root)) :
         \A p \in Instants(region) :
            LET v == Leaves(root)[i]
            IN  ( /\ v.kind = "Video"
                  /\ v.timeline_position < p
                  /\ p < v.timeline_end_position ) =>
                        VideoPieces(v, p, split(v, p))
    /\ ( /\ pc = "probed"
         /\ panic = "none"
         /\ SplitSite(root, probe[1].position).what = "leaf"
         /\ SplitSite(root, probe[1].position).leaf.kind = "Video" ) =>
            LET v == SplitSite(root, probe[1].position).leaf
                p == probe[1].position
            IN  \E i \in 1..Len(Leaves(probe[1].left)) :
                \E j \in 1..Len(Leaves(probe[1].right)) :
                    LET l == Leaves(probe[1].left)[i]
                        r == Leaves(probe[1].right)[j]
                    IN  /\ l.timeline_end_position = p
                        /\ r.timeline_position = p
                        /\ l.kind = "Video" /\ r.kind = "Video"
                        /\ VideoPieces(v, p, <<l, r>>)

C26_Witness ==
    /\ pc = "probed"
    /\ panic = "none"
    /\ SplitSite(root, probe[1].position).what = "leaf"
    /\ LET v == SplitSite(root, probe[1].position).leaf
       IN  /\ v.kind = "Video"
           /\ IsSome(v.fade_in)
           /\ IsSome(v.fade_out)
           /\ v.source_offset > 0
           /\ v.filter_chain # <<>>
           /\ v.timeline_position < probe[1].position
           /\ probe[1].position < v.timeline_end_position

\* The XFade nodes of a tree in the order their stages are emitted: a node's
\* stage follows the stages of its left and of its right subtree.
RECURSIVE XFadesEmitted(_)
XFadesEmitted(n) ==
    CASE n.kind = "XFade" ->
            XFadesEmitted(n.left) \o XFadesEmitted(n.right) \o <<n>>
      [] n.kind = "Concat" -> XFadesEmitted(n.left) \o XFadesEmitted(n.right)
      [] OTHER -> <<>>

\* C27: the offset of the xfade stage emitted for an XFade node is
\* right.start - left.start, so that offset + duration is the length of the
\* left stream, also when the left child does not start at position 0.
C27_OffsetFromLeftStart ==
    pc = "rendered" =>
        LET x == StagesNamed(rendered[1], "xfade")
            nodes == XFadesEmitted(root)
        IN  /\ Len(x) = Len(nodes)
            /\ \A k \in 1..Len(nodes) :
                 /\ x[k].offset = nodes[k].right.timeline_position
                                      - nodes[k].left.timeline_position
                 /\ x[k].offset + x[k].duration
                        = nodes[k].left.timeline_end_position
                              - nodes[k].left.timeline_position

VideoLeaves(n) == SelectSeq(Leaves(n), LAMBDA l : l.kind = "Video")

\* The positions of flag f in the argument list a.
FlagAt(a, f) == {i \in 1..Len(a) : a[i] = Flag(f)}

\* The id drawn for the root of a tree by a fresh generator.
RootStageId(n) ==
    CASE n.kind = "Background" -> "bg0"
      [] n.kind = "Video" -> "vf0"
      [] n.kind = "Concat" -> "conc0"
      [] n.kind = "XFade" -> "xfade0"

EncoderFlags == {"-c:v", "-pix_fmt", "-c:a", "-crf", "-tune", "-b:a"}

\* C23: the Command of get_render_job lists, in this order, one -ss/-t/-i
\* triple per Video leaf in leaf order, one -filter_complex whose text ends
\* with the label of the root's stage, the -map of that label, the encoder
\* flags, the -r flag, and the output path as its last argument.
C23_CommandOrder ==
    pc = "rendered" =>
        LET a == command[1]
            v == VideoLeaves(root)
            k == Len(v)
            fc == FlagAt(a, "-filter_complex")
            maps == FlagAt(a, "-map")
            enc == UNION {FlagAt(a, f) : f \in EncoderFlags}
            rate == FlagAt(a, "-r")
        IN  /\ Cardinality(FlagAt(a, "-ss")) = k
            /\ Cardinality(FlagAt(a, "-t")) = k
            /\ \A j \in 1..k :
                 LET at == 6 * (j - 1) + 2
                     d == v[j].timeline_end_position - v[j].timeline_position
                 IN  /\ a[at + 1] = Flag("-ss")
                     /\ a[at + 2] =
                            Operand(SourceOffsetTimestump(v[j].source_offset))
                     /\ a[at + 3] = Flag("-t")
                     /\ a[at + 4] = Operand(DurationTimestump(d))
                     /\ a[at + 5] = Flag("-i")
                     /\ a[at + 6] = Operand([file |-> v[j].file])
            /\ Cardinality(fc) = 1
            /\ \A i \in fc :
                 LET e == a[i + 1].operand.expression
                 IN  /\ i > 6 * k + 2
                     /\ e[Len(e)].out = Some(RootStageId(root))
                     /\ \E m \in maps :
                          /\ m > i
                          /\ a[m + 1] = Operand([label |-> RootStageId(root),
                                                 stream |-> 0])
                          /\ \A c \in enc : c > m
            /\ enc # {}
            /\ Cardinality(rate) = 1
            /\ \A r \in rate : /\ \A c \in enc : c < r
                               /\ r < Len(a)
            /\ \E s \in RenderSettings :
                 a[Len(a)] = Operand(with_extension(OutFile, s.extension))

C23_Witness ==
    /\ pc = "rendered"
    /\ Len(VideoLeaves(root)) = 3
    /\ root.kind = "XFade"
    /\ FlagAt(command[1], "-itsoffset") # {}
    /\ FlagAt(command[1], "-crf") # {}
    /\ \E i \in FlagAt(command[1], "-filter_complex") :
          LET e == command[1][i + 1].operand.expression
          IN  e[Len(e)].stages[Len(e[Len(e)].stages)].name = "hue"

\* The least z_index of the leaves of a tree.
MinLeafZ(n) ==
    CHOOSE z \in {Leaves(n)[i].z_index : i \in 1..Len(Leaves(n))} :
        \A i \in 1..Len(Leaves(n)) : z <= Leaves(n)[i].z_index

\* Every Concat and XFade of the tree carries the lesser z_index of its two
\* children, and the tree's own z_index is the least of its leaves.
ZIndexIsMin(n) ==
    /\ \A i \in 1..Len(Nodes(n)) :
         LET m == Nodes(n)[i]
         IN  m.kind \in {"Concat", "XFade"} =>
                 /\ m.z_index <= m.left.z_index
                 /\ m.z_index <= m.right.z_index
                 /\ m.z_index \in {m.left.z_index, m.right.z_index}
    /\ n.z_index = MinLeafZ(n)

\* C29: in every tree built by push_video, and in both parts of every split
\* of one, each Concat and XFade node's z_index is the minimum of its
\* children's and the root's z_index is the minimum over its content.
C29_ZIndexIsMin ==
    /\ ZIndexIsMin(root)
    /\ (pc = "probed" /\ panic = "none") =>
           /\ ZIndexIsMin(probe[1].left)
           /\ ZIndexIsMin(probe[1].right)

C29_Witness ==
    /\ pc = "probed"
    /\ panic = "none"
    /\ npush = MaxPush
    /\ root.kind \in {"Concat", "XFade"}
    /\ root.z_index = 0
    /\ \E i \in 1..Len(Nodes(root)) :
          /\ Nodes(root)[i].kind \in {"Concat", "XFade"}
          /\ Nodes(root)[i].left.z_index # Nodes(root)[i].right.z_index
    /\ probe[1].right.kind \in {"Concat", "XFade"}
    /\ probe[1].right.z_index > probe[1].left.z_index

\* The project is one for which region derivation must fail: a render mode
\* other than MasterMix, the bounds modes SelectedItems and SelectedRegions,
\* or a region to render for which REAPER names no target.
DerivationFails(pr) ==
    \/ pr.mode # "MasterMix"
    \/ pr.bounds \in {"SelectedItems", "SelectedRegions"}
    \/ pr.bounds \in {"EntireProject", "Custom", "TimeSelection"}
           /\ pr.n_targets = 0
    \/ pr.bounds = "AllRegions" /\ pr.n_targets < pr.n_regions

\* C22: for such a project get_render_regions and build_render_timelines
\* return an error that carries no region list, the back-end answers the
\* request with no RenderSequence, and no RenderJob and no process exists.
C22_DerivationErrors ==
    DerivationFails(session.project) =>
        /\ ~get_render_regions(session.project).ok
        /\ DOMAIN get_render_regions(session.project) = {"ok", "error"}
        /\ build_render_timelines(session.project)
               = get_render_regions(session.project)
        /\ session.to_front = << >>
        /\ session.render_queue = << >>
        /\ session.render_jobs = << >>
        /\ (session.asked /\ session.to_backend = << >>) =>
               session.backend = get_render_regions(session.project)

C22_Witness ==
    /\ session.project.mode = "MasterMix"
    /\ session.project.bounds = "AllRegions"
    /\ session.project.n_regions = 2
    /\ session.project.n_targets = 1
    /\ session.asked
    /\ session.to_backend = << >>
    /\ ~session.backend.ok
    /\ session.render_jobs = << >>

\* C30: no job's external process is spawned while Front::render still has
\* a timeline of the queue to lower.
C30_LoweredBeforeSpawn ==
    (\E i \in 1..Len(session.render_jobs) :
        session.render_jobs[i].thread = "child")
    => session.render_queue = << >>

\* C37: for each Video leaf, the -ss and -t arguments of its input, read as
\* hours:minutes:seconds.fraction, are the leaf's source offset and the
\* leaf's duration.
C37_TimestampsAreExact ==
    pc = "rendered" =>
        LET v == VideoLeaves(root)
            inputs == rendered[1].inputs
        IN  \A j \in 1..Len(v) :
               /\ ReadTimestamp(inputs[6 * (j - 1) + 2]) = v[j].source_offset
               /\ ReadTimestamp(inputs[6 * (j - 1) + 4])
                      = v[j].timeline_end_position - v[j].timeline_position

\* The source time a Video leaf shows at timeline position 0.
Alignment(v) == v.source_offset - v.timeline_position

\* Every Video leaf of tree n shows the source time a leaf of the same file in
\* tree m shows.
AlignedWith(n, m) ==
    \A i \in 1..Len(VideoLeaves(n)) :
       \E j \in 1..Len(VideoLeaves(m)) :
          /\ VideoLeaves(m)[j].file = VideoLeaves(n)[i].file
          /\ Alignment(VideoLeaves(m)[j]) = Alignment(VideoLeaves(n)[i])

\* C34: a Video leaf stays time-aligned with the VideoInput it derives from:
\* a push_video leaves the pushed video's leaves aligned with the input and
\* every other leaf aligned as it was, and a split leaves both parts' leaves
\* aligned as they were.
C34_LeavesStayAligned ==
    [][ /\ npush' = npush + 1 =>
             \A i \in 1..Len(VideoLeaves(root')) :
                LET leaf == VideoLeaves(root')[i]
                IN  IF leaf.file = last'.video.file
                    THEN Alignment(leaf) = Alignment(last'.video)
                    ELSE AlignedWith(leaf, root)
        /\ (pc' = "probed" /\ panic' = "none") =>
             /\ AlignedWith(probe'[1].left, root)
             /\ AlignedWith(probe'[1].right, root) ]_vars

C34_Witness ==
    /\ pc = "probed"
    /\ panic = "none"
    /\ SplitSite(root, probe[1].position).what = "leaf"
    /\ LET v == SplitSite(root, probe[1].position).leaf
       IN  /\ v.kind = "Video"
           /\ v.timeline_position > 0
           /\ v.source_offset > ClipOf(v.file).source_offset
           /\ v.timeline_position < probe[1].position

\* The leaves of tree n that show something in [from, to).
LeavesIn(n, from, to) ==
    SelectSeq(Leaves(n), LAMBDA l : /\ l.timeline_position < to
                                    /\ from < l.timeline_end_position)

\* C35: after a push_video of v that returns, the only leaf that shows
\* anything in v's solid range [start + fade_in, end - fade_out) is v's own
\* Video leaf, which covers the whole of it.
C35_SolidRangeIsOwn ==
    (Returned /\ SolidStart(last.video) < SolidEnd(last.video)) =>
        LET in == LeavesIn(root, SolidStart(last.video), SolidEnd(last.video))
        IN  /\ Len(in) = 1
            /\ in[1].kind = "Video"
            /\ in[1].file = last.video.file
            /\ in[1].timeline_position <= SolidStart(last.video)
            /\ SolidEnd(last.video) <= in[1].timeline_end_position

C35_Witness ==
    /\ Returned
    /\ npush = MaxPush
    /\ last.path = "general"
    /\ IsSome(last.video.fade_in)
    /\ IsSome(last.video.fade_out)
    /\ SolidStart(last.video) < SolidEnd(last.video)
    /\ Len(VideoLeaves(root)) >= 3

\* What tree n shows at instant t: kind, file and source time of every leaf
\* whose span holds t (a Background has no file and no source time).
Shows(n, t) ==
    { IF l.kind = "Video"
      THEN [kind |-> "Video", file |-> l.file,
            at |-> l.source_offset + (t - l.timeline_position)]
      ELSE [kind |-> l.kind, file |-> -1, at |-> 0] :
        l \in { Leaves(n)[i] : i \in { k \in 1..Len(Leaves(n)) :
                    /\ Leaves(n)[k].timeline_position <= t
                    /\ t < Leaves(n)[k].timeline_end_position } } }

\* C36: a push_video of a video spanning [s, e) leaves what the tree shows at
\* every instant before s and at every instant from e on as it was.
C36_OutsideIsUnchanged ==
    [][ npush' = npush + 1 =>
          \A u \in Instants(region) :
             ( /\ u < region
               /\ \/ u < last'.video.timeline_position
                  \/ last'.video.timeline_end_position <= u )
             => Shows(root', u) = Shows(root, u) ]_vars

C36_Witness ==
    /\ Returned
    /\ npush = MaxPush
    /\ last.path = "general"
    /\ 0 < last.video.timeline_position
    /\ last.video.timeline_end_position < region
    /\ IsSome(last.video.fade_in)
    /\ Cardinality(Shows(root, 0)) = 2
    /\ \E x \in Shows(root, last.video.timeline_end_position) :
          x.kind = "Video" /\ x.file # last.video.file

\* The user stopped the rendering: the job was killed and dropped while in
\* Progress.
Stopped == polling = "dropped" /\ job.progress.tag = "Progress"

\* C38: after the stop button (kill() on the job, then the job and its
\* channel ends dropped) neither the stdout reader nor the stderr reader of
\* the job panics, whatever the child still writes.
C38_StopPanicsNoReader ==
    Stopped => /\ worker # "panicked"
               /\ logger # "panicked"

\* C39: with parallel_render false the jobs run one after another: no two
\* jobs have their external process running at the same time.
C39_SerialWhenNotParallel ==
    ~session.parallel_render =>
        Cardinality({i \in 1..Len(session.render_jobs) :
                        session.render_jobs[i].thread = "child"}) <= 1

\* The part of an item that lies before the region start.
CutOff(item) ==
    IF item.position < build.start THEN build.start - item.position ELSE 0

\* C31: every VideoInput build_timeline pushes for the region [start, end)
\* has 0 <= timeline_position < timeline_end_position <= end - start, and
\* its source_offset is the take's start offset plus what the region start
\* cuts off the item, so never less than the take's start offset.
C31_PushedInsideRegion ==
    build.pushed # None =>
        LET video == build.pushed[1]
            item == build.item[1]
        IN  /\ 0 <= video.timeline_position
            /\ video.timeline_position < video.timeline_end_position
            /\ video.timeline_end_position <= build.end - build.start
            /\ video.source_offset = item.start_offset + CutOff(item)
            /\ video.source_offset >= item.start_offset

C31_Witness ==
    /\ build.pushed # None
    /\ build.item[1].position < build.start
    /\ build.item[1].start_offset > 0
    /\ build.pushed[1].timeline_position = 0
    /\ build.pushed[1].timeline_end_position < build.end - build.start
    /\ build.pushed[1].source_offset > build.item[1].start_offset

\* C32: over the whole traversal of build_timeline (tracks from the last to
\* the first, items in index order, muted and non-soloed tracks skipped) the
\* track_index of each pushed video is <= the z_index the tree has when the
\* video is pushed, so the assertion of push_video never fires.
C32_PushesInZOrder ==
    /\ build.panic # "pushing underlying video"
    /\ build.pushed # None =>
          build.pushed[1].track_index <= build.before[1].z_index

C32_Witness ==
    /\ build.pushed # None
    /\ build.panic = "none"
    /\ build.before[1].z_index = 1
    /\ build.pushed[1].track_index = 0
    /\ build.content.z_index = 0
    /\ build.idx = 2

\* C33: for every VideoInput build_timeline produces (the item clipped to
\* the region, its fades taken unchanged), push_video calls split only with
\* a position strictly inside the span of the tree it splits: start <
\* position < end, for the solid start and for the solid end.
C33_SplitsInsideSpan ==
    build.pushed # None =>
        \A i \in 1..Len(build.splits) :
            /\ build.before[1].timeline_position < build.splits[i]
            /\ build.splits[i] < build.before[1].timeline_end_position
====
